---- MODULE Spec2Model ----
(***************************************************************************)
(* Run-state tracker and execution driver of the Runway extension          *)
(* (src/src/extension.ts): the runningTerminals set, the pendingCommands   *)
(* and trackedExecutions maps, the terminal lifecycle handlers, the click  *)
(* and stop commands, and runInTerminal with its two deferred timers.      *)
(*                                                                         *)
(* The terminal host is the environment.  It owns the list of open         *)
(* terminals, delivers open / close / shell-integration / execution-end    *)
(* events and fires the timers.  A terminal created by the extension is    *)
(* in the window's list at once and its open event is delivered later.     *)
(*                                                                         *)
(* The persisted stores (SourceStore and the two ScriptStores for command  *)
(* overrides and display names) live in the workspace-state memento.       *)
(*                                                                         *)
(* Script discovery (ScriptProvider, detectPM, parseMakeTargets) reads the *)
(* source registry and the file system and keeps no state of its own.      *)
(***************************************************************************)
EXTENDS Integers, Sequences, FiniteSets, TLC

\* ------------------------------------------------------------------ bounds

\* Terminal objects ever created (by the extension, the user, or before activation).
MaxTerms == 2
\* Execution handles ever returned by executeCommand.
MaxExecs == 2
\* Timers (setTimeout callbacks) outstanding at one time.
MaxTimers == 2
\* Terminals already open when the extension activates.
MaxSeed == 1

\* Script labels, which are the terminal names.
Labels == {"a", "b"}
\* Script identities; s1 and s2 render the same label.
ScriptIds == {"s1", "s2", "s3"}
\* The resolved command handed to runInTerminal (override ?? defaultCommand): never empty
\* for a runnable script.
Commands == {"c1", "c2"}

Terms == 1..MaxTerms
Execs == 1..MaxExecs

\* SourceType, and the absolute paths of the sources a user adds.
SourceTypes == {"packageJson", "directory", "file"}
Paths == {"/a", "/b"}
Sources == [type : SourceTypes, path : Paths]

\* What the user leaves in the input box of runway.setOverride and of runway.setLabel.
OverrideInputs == {"", " ", " x "}
LabelInputs == {"", " x ", "y"}

\* ------------------------------------------------------------ representation

\* Script.label of a script identity.
labelOf(s) == IF s = "s3" THEN "b" ELSE "a"

\* Map.get(name) of a name with no entry in pendingCommands.
NoCmd == "undefined"
\* Map.get(name) of a name with no entry in trackedExecutions.
NoExec == 0
\* An execution the extension did not start (a command typed in the terminal).
ForeignExec == -1
\* No terminal (Array.find found none; an event that concerns no terminal).
NoTerm == 0
\* The value undefined: ScriptStore.get of an id with no entry, a cancelled input box.
Undefined == "undefined"

\* Script.defaultCommand of a script identity.
defaultCommand(s) == IF s = "s2" THEN "c2" ELSE "c1"

\* String.prototype.trim on the inputs.
trim(v) ==
    CASE v \in {"", " "} -> ""
      [] v = " x " -> "x"
      [] OTHER -> v

VARIABLES
    terminals,          \* vscode.window.terminals: the open terminals, in order
    nTerms,             \* terminal objects created so far (their ids are 1..nTerms)
    tname,              \* terminal id -> Terminal.name
    unopened,           \* created terminals whose onDidOpenTerminal is not yet delivered
    si,                 \* terminals whose shellIntegration is defined
    runningTerminals,   \* Set<string>
    pendingCommands,    \* Map<string, string>
    trackedExecutions,  \* Map<string, TerminalShellExecution>
    nExecs,             \* execution handles created so far
    live,               \* <<execution, terminal>>: started by executeCommand, end event not yet delivered
    timers,             \* outstanding setTimeout callbacks, in the order they were scheduled
    lastClickKey,       \* itemClicked's lastClickKey
    cmdActive,          \* history: label -> a start action happened and no matched completion,
                        \*          close or explicit stop for that name since
    ev,                 \* history: the last handler run that changed a table or sent something
                        \*          to a terminal, and what it sent
    workspaceState,     \* context.workspaceState: memento key -> stored value (only keys
                        \*          that were written)
    call,               \* history: the last SourceStore call: the method, its argument,
                        \*          getAll() before it, and what it returned
    fs,                 \* the file system: files (path -> content) and directories
    tree,               \* history: what the last discovery pass returned
    inert,              \* history: the identities whose override was stored when their
                        \*          script left the view and has not been written since
    notice              \* history: the files picked in the last addFile run and the
                        \*          ones it warned about

trackerVars == <<terminals, nTerms, tname, unopened, si, runningTerminals,
                 pendingCommands, trackedExecutions, nExecs, live, timers, lastClickKey,
                 cmdActive, ev>>

storeVars == <<workspaceState, call>>

discoveryVars == <<fs, tree, inert, notice>>

vars == <<trackerVars, storeVars, discoveryVars>>

\* The record of one handler run: the handler, the terminal it concerned, whether it sent
\* the interrupt byte, whether it dispatched a command and how ("cap":
\* shellIntegration.executeCommand, "raw": sendText, "lost": either of them on a terminal
\* that is closed), and the command it started or dispatched.  A run that changes no table
\* and sends nothing leaves the record as it is.
Event(op, term, interrupt, dispatch, cmd) ==
    [op |-> op, term |-> term, interrupt |-> interrupt, dispatch |-> dispatch, cmd |-> cmd]

\* vscode.window.terminals.find(t => t.name === label): the first open terminal of that name.
HasTerminal(label) == \E i \in 1..Len(terminals) : tname[terminals[i]] = label

\* Mutant of FindTerminal: the lookup by label finds nothing.
FindTerminalNone(label) == NoTerm

FindTerminal(label) ==
    IF HasTerminal(label)
    THEN terminals[CHOOSE i \in 1..Len(terminals) :
                      /\ tname[terminals[i]] = label
                      /\ \A j \in 1..(i - 1) : tname[terminals[j]] # label]
    ELSE NoTerm

IsOpen(t) == \E i \in 1..Len(terminals) : terminals[i] = t

\* The list of open terminals without terminal t.
RemoveTerminal(t) == SelectSeq(terminals, LAMBDA x : x # t)

\* The timers without the i-th.
RemoveTimer(i) == SubSeq(timers, 1, i - 1) \o SubSeq(timers, i + 1, Len(timers))

\* ScriptItem's isRunning for a runnable script: the run state shown for script s.
isRunning(s) == labelOf(s) \in runningTerminals

\* --------------------------------------------------------------------- Init

\* The state of the extension after activate(): runningTerminals is seeded with the
\* names of the terminals already open; both maps are empty; nothing is persisted yet.
InitExtension ==
    /\ \E n \in 0..MaxSeed :
         /\ nTerms = n
         /\ terminals = [i \in 1..n |-> i]
    /\ tname \in [Terms -> Labels]
    /\ \A t \in Terms : t > nTerms => tname[t] = "a"
    /\ unopened = {}
    /\ si \in SUBSET (1..nTerms)
    /\ runningTerminals = {tname[t] : t \in 1..nTerms}
    /\ pendingCommands = [l \in Labels |-> NoCmd]
    /\ trackedExecutions = [l \in Labels |-> NoExec]
    /\ nExecs = 0
    /\ live = {}
    /\ timers = <<>>
    /\ lastClickKey = ""
    /\ cmdActive = [l \in Labels |-> FALSE]
    /\ ev = Event("activate", NoTerm, FALSE, "none", NoCmd)
    /\ workspaceState = <<>>
    /\ call = [op |-> "none", arg |-> "", before |-> <<>>, returned |-> "none"]

\* A file system with nothing in it that discovery looks at.
NoFiles == [files |-> <<>>, dirs |-> <<>>]

\* No addFile run has been made.
NoNotice == [picked |-> <<>>, warned |-> <<>>]

\* No discovery pass has run.
NoTree == [status |-> "none", roots |-> <<>>, children |-> <<>>]

\* The state after activate() in a workspace with no file of interest.
Init ==
    /\ InitExtension
    /\ fs = NoFiles
    /\ tree = NoTree
    /\ inert = {}
    /\ notice = NoNotice

\* ------------------------------------------------------- markRunning/Stopped

\* Mutant of markRunning: the name is not added.
markRunningDropped(name) == runningTerminals' = runningTerminals

markRunning(name) == runningTerminals' = runningTerminals \cup {name}

\* Mutant of markStopped: the whole set is cleared.
markStoppedAll(name) == runningTerminals' = {}

markStopped(name) == runningTerminals' = runningTerminals \ {name}


\* -------------------------------------------------------- lifecycle handlers

\* A terminal opened by the user (or by anything but runInTerminal): the host adds it to
\* the list and delivers onDidOpenTerminal, whose handler is markRunning(t.name).
UserOpenTerminal(name) ==
    /\ nTerms < MaxTerms
    /\ nTerms' = nTerms + 1
    /\ terminals' = Append(terminals, nTerms + 1)
    /\ tname' = [tname EXCEPT ![nTerms + 1] = name]
    /\ markRunning(name)
    /\ ev' = Event("userOpen", nTerms + 1, FALSE, "none", NoCmd)
    /\ UNCHANGED <<unopened, si, pendingCommands, trackedExecutions, nExecs, live,
                   timers, lastClickKey, cmdActive>>

\* Mutant of TerminalOpened: the open handler does not mark the name Running.
TerminalOpenedNoMark(t) ==
    /\ t \in unopened
    /\ unopened' = unopened \ {t}
    /\ ev' = Event("open", t, FALSE, "none", NoCmd)
    /\ UNCHANGED <<terminals, nTerms, tname, si, runningTerminals, pendingCommands,
                   trackedExecutions, nExecs, live, timers, lastClickKey, cmdActive>>

\* onDidOpenTerminal for a terminal that runInTerminal created.
TerminalOpened(t) ==
    /\ t \in unopened
    /\ unopened' = unopened \ {t}
    /\ markRunning(tname[t])
    /\ ev' = Event("open", t, FALSE, "none", NoCmd)
    /\ UNCHANGED <<terminals, nTerms, tname, si, pendingCommands, trackedExecutions,
                   nExecs, live, timers, lastClickKey, cmdActive>>

\* Mutant of TerminalClosed: the close handler forgets trackedExecutions.delete.
TerminalClosedKeepsTracked(t) ==
    /\ IsOpen(t)
    /\ t \notin unopened
    /\ terminals' = RemoveTerminal(t)
    /\ pendingCommands' = [pendingCommands EXCEPT ![tname[t]] = NoCmd]
    /\ markStopped(tname[t])
    /\ live' = {x \in live : x[2] # t}
    /\ cmdActive' = [cmdActive EXCEPT ![tname[t]] = FALSE]
    /\ ev' = Event("close", t, FALSE, "none", NoCmd)
    /\ UNCHANGED <<nTerms, tname, unopened, si, trackedExecutions, nExecs, timers,
                   lastClickKey>>

\* onDidCloseTerminal: the host drops the terminal from the list; the handler deletes
\* both map entries of its name and calls markStopped.  No event of a closed terminal's
\* executions is delivered afterwards.
TerminalClosed(t) ==
    /\ IsOpen(t)
    /\ t \notin unopened
    /\ terminals' = RemoveTerminal(t)
    /\ pendingCommands' = [pendingCommands EXCEPT ![tname[t]] = NoCmd]
    /\ trackedExecutions' = [trackedExecutions EXCEPT ![tname[t]] = NoExec]
    /\ markStopped(tname[t])
    /\ live' = {x \in live : x[2] # t}
    /\ cmdActive' = [cmdActive EXCEPT ![tname[t]] = FALSE]
    /\ ev' = Event("close", t, FALSE, "none", NoCmd)
    /\ UNCHANGED <<nTerms, tname, unopened, si, nExecs, timers, lastClickKey>>

\* Mutant of ShellIntegrationChanged: the handler forgets pendingCommands.delete.
ShellIntegrationChangedKeepsPending(t) ==
    /\ IsOpen(t)
    /\ t \notin unopened
    /\ si' = si \cup {t}
    /\ IF pendingCommands[tname[t]] # NoCmd
       THEN /\ nExecs < MaxExecs
            /\ nExecs' = nExecs + 1
            /\ trackedExecutions' = [trackedExecutions EXCEPT ![tname[t]] = nExecs + 1]
            /\ live' = live \cup {<<nExecs + 1, t>>}
            /\ ev' = Event("capability", t, FALSE, "cap", pendingCommands[tname[t]])
            /\ UNCHANGED pendingCommands
       ELSE UNCHANGED <<pendingCommands, trackedExecutions, nExecs, live, ev>>
    /\ UNCHANGED <<terminals, nTerms, tname, unopened, runningTerminals, timers,
                   lastClickKey, cmdActive>>

\* onDidChangeTerminalShellIntegration: the terminal's shellIntegration becomes (or stays)
\* defined; a pending command of the terminal's name is run through executeCommand and
\* its execution recorded.  The host may deliver the event more than once per terminal.
ShellIntegrationChanged(t) ==
    /\ IsOpen(t)
    /\ t \notin unopened
    /\ si' = si \cup {t}
    /\ IF pendingCommands[tname[t]] # NoCmd
       THEN /\ nExecs < MaxExecs
            /\ nExecs' = nExecs + 1
            /\ pendingCommands' = [pendingCommands EXCEPT ![tname[t]] = NoCmd]
            /\ trackedExecutions' = [trackedExecutions EXCEPT ![tname[t]] = nExecs + 1]
            /\ live' = live \cup {<<nExecs + 1, t>>}
            /\ ev' = Event("capability", t, FALSE, "cap", pendingCommands[tname[t]])
       ELSE UNCHANGED <<pendingCommands, trackedExecutions, nExecs, live, ev>>
    /\ UNCHANGED <<terminals, nTerms, tname, unopened, runningTerminals, timers,
                   lastClickKey, cmdActive>>

\* Mutant of EndHandler: any execution that ends in the terminal clears the state (the
\* event's execution is not compared with the recorded one).
EndHandlerAnyExecution(t, e) ==
    /\ trackedExecutions' = [trackedExecutions EXCEPT ![tname[t]] = NoExec]
    /\ markStopped(tname[t])
    /\ cmdActive' = [cmdActive EXCEPT ![tname[t]] = FALSE]
    /\ ev' = Event("end", t, FALSE, "none", NoCmd)

\* Mutant of EndHandler: the matched completion marks the name stopped but forgets
\* trackedExecutions.delete.
EndHandlerKeepsHandle(t, e) ==
    IF trackedExecutions[tname[t]] = e
    THEN /\ markStopped(tname[t])
         /\ cmdActive' = [cmdActive EXCEPT ![tname[t]] = FALSE]
         /\ ev' = Event("end", t, FALSE, "none", NoCmd)
         /\ UNCHANGED trackedExecutions
    ELSE UNCHANGED <<trackedExecutions, runningTerminals, cmdActive, ev>>

\* The handler of onDidEndTerminalShellExecution for an event of terminal t carrying
\* execution e: only the execution recorded for the terminal's name clears the state.
EndHandler(t, e) ==
    IF trackedExecutions[tname[t]] = e
    THEN /\ trackedExecutions' = [trackedExecutions EXCEPT ![tname[t]] = NoExec]
         /\ markStopped(tname[t])
         /\ cmdActive' = [cmdActive EXCEPT ![tname[t]] = FALSE]
         /\ ev' = Event("end", t, FALSE, "none", NoCmd)
    ELSE UNCHANGED <<trackedExecutions, runningTerminals, cmdActive, ev>>

\* An execution started by executeCommand ends (natural exit, crash, Ctrl+C).
ShellExecutionEnded(x) ==
    /\ x \in live
    /\ live' = live \ {x}
    /\ EndHandler(x[2], x[1])
    /\ UNCHANGED <<terminals, nTerms, tname, unopened, si, pendingCommands, nExecs,
                   timers, lastClickKey>>

\* A command the user typed in a terminal with shell integration ends.
ForeignExecutionEnded(t) ==
    /\ IsOpen(t)
    /\ t \in si
    /\ EndHandler(t, ForeignExec)
    /\ UNCHANGED <<terminals, nTerms, tname, unopened, si, pendingCommands, nExecs,
                   live, timers, lastClickKey>>

\* ------------------------------------------------------------ runInTerminal

\* runInTerminal(script, command, markRunning, pendingCommands, trackedExecutions) for a
\* script of that label, called by handler `op` (which sets lastClickKey).
runInTerminal(label, command, op) ==
    LET existing == FindTerminal(label) IN
    /\ Len(timers) < MaxTimers
    /\ cmdActive' = [cmdActive EXCEPT ![label] = TRUE]
    /\ IF existing # NoTerm
       THEN IF existing \in si
            THEN \* interrupt, then executeCommand after the 100 ms settle delay
                 /\ timers' = Append(timers, [kind |-> "settle", term |-> existing,
                                              cmd |-> command])
                 /\ ev' = Event(op, existing, TRUE, "none", command)
                 /\ UNCHANGED <<terminals, nTerms, tname, unopened, pendingCommands>>
            ELSE \* interrupt, queue, and fall back to sendText after 3 s
                 /\ pendingCommands' = [pendingCommands EXCEPT ![tname[existing]] = command]
                 /\ timers' = Append(timers, [kind |-> "graceExisting", term |-> existing,
                                              cmd |-> command])
                 /\ ev' = Event(op, existing, TRUE, "none", command)
                 /\ UNCHANGED <<terminals, nTerms, tname, unopened>>
       ELSE \* createTerminal, queue, and fall back to sendText after 3 s
            /\ nTerms < MaxTerms
            /\ nTerms' = nTerms + 1
            /\ terminals' = Append(terminals, nTerms + 1)
            /\ tname' = [tname EXCEPT ![nTerms + 1] = label]
            /\ unopened' = unopened \cup {nTerms + 1}
            /\ pendingCommands' = [pendingCommands EXCEPT ![label] = command]
            /\ timers' = Append(timers, [kind |-> "graceNew", term |-> nTerms + 1,
                                         cmd |-> command])
            /\ ev' = Event(op, nTerms + 1, FALSE, "none", command)
    /\ UNCHANGED <<si, runningTerminals, trackedExecutions, nExecs, live>>

\* The runway.run command.
Run(s, command) ==
    /\ runInTerminal(labelOf(s), command, "run")
    /\ UNCHANGED lastClickKey

\* Mutant of StopTerminal: the interrupt is sent but the name is left Running until a
\* completion event confirms the stop.
StopTerminalUnconfirmed(label, op) ==
    /\ cmdActive' = [cmdActive EXCEPT ![label] = FALSE]
    /\ ev' = Event(op, FindTerminal(label), TRUE, "none", NoCmd)
    /\ UNCHANGED <<terminals, nTerms, tname, unopened, si, runningTerminals,
                   pendingCommands, trackedExecutions, nExecs, live, timers>>

\* The stop branch shared by runway.stop and the double-click: Ctrl+C into the terminal,
\* show it, markStopped(script.label).
StopTerminal(label, op) ==
    /\ markStopped(label)
    /\ cmdActive' = [cmdActive EXCEPT ![label] = FALSE]
    /\ ev' = Event(op, FindTerminal(label), TRUE, "none", NoCmd)
    /\ UNCHANGED <<terminals, nTerms, tname, unopened, si, pendingCommands,
                   trackedExecutions, nExecs, live, timers>>

\* The runway.stop command: acts only when a terminal of the script's label is open.
Stop(s) ==
    /\ IF HasTerminal(labelOf(s))
       THEN StopTerminal(labelOf(s), "stop")
       ELSE UNCHANGED <<terminals, nTerms, tname, unopened, si, runningTerminals,
                        pendingCommands, trackedExecutions, nExecs, live, timers,
                        cmdActive, ev>>
    /\ UNCHANGED lastClickKey

\* Mutant of itemClickedHandler: the double-click branch leaves the click memory as it is.
itemClickedHandlerKeepsKey(s, fast, commands) ==
    IF s = lastClickKey /\ fast
    THEN /\ UNCHANGED lastClickKey
         /\ IF HasTerminal(labelOf(s)) /\ labelOf(s) \in runningTerminals
            THEN StopTerminal(labelOf(s), "doubleClick")
            ELSE \E command \in commands :
                    runInTerminal(labelOf(s), command, "doubleClick")
    ELSE /\ lastClickKey' = s
         /\ UNCHANGED <<terminals, nTerms, tname, unopened, si, runningTerminals,
                        pendingCommands, trackedExecutions, nExecs, live, timers,
                        cmdActive, ev>>

\* Mutant of itemClickedHandler: a single click on a script with an open terminal sends
\* the interrupt to it.
itemClickedHandlerInterrupting(s, fast, commands) ==
    IF s = lastClickKey /\ fast
    THEN /\ lastClickKey' = ""
         /\ IF HasTerminal(labelOf(s)) /\ labelOf(s) \in runningTerminals
            THEN StopTerminal(labelOf(s), "doubleClick")
            ELSE \E command \in commands :
                    runInTerminal(labelOf(s), command, "doubleClick")
    ELSE /\ lastClickKey' = s
         /\ IF HasTerminal(labelOf(s))
            THEN StopTerminal(labelOf(s), "click")
            ELSE UNCHANGED <<terminals, nTerms, tname, unopened, si, runningTerminals,
                             pendingCommands, trackedExecutions, nExecs, live, timers,
                             cmdActive, ev>>

\* The handler of runway.itemClicked.  `fast` is now - lastClickTime < 300; `commands`
\* holds what the command of a start may resolve to at the click.
itemClickedHandler(s, fast, commands) ==
    IF s = lastClickKey /\ fast
    THEN \* double-click
         /\ lastClickKey' = ""
         /\ IF HasTerminal(labelOf(s)) /\ labelOf(s) \in runningTerminals
            THEN StopTerminal(labelOf(s), "doubleClick")
            ELSE \E command \in commands :
                    runInTerminal(labelOf(s), command, "doubleClick")
    ELSE \* single click: focus the terminal, remember the click
         /\ lastClickKey' = s
         /\ UNCHANGED <<terminals, nTerms, tname, unopened, si, runningTerminals,
                        pendingCommands, trackedExecutions, nExecs, live, timers,
                        cmdActive, ev>>

\* The runway.itemClicked command, the command of a start being any resolved command.
ItemClicked(s, fast) == itemClickedHandler(s, fast, Commands)

\* ------------------------------------------------------------------- timers

\* The host runs setTimeout callbacks in the order of their due times.  A 3 s grace
\* timer is due after every timer scheduled before it; a 100 ms settle timer is due
\* after every settle timer scheduled before it and may overtake grace timers.  A
\* terminal's open event is delivered within the grace period.
CanFire(i) ==
    IF timers[i].kind = "settle"
    THEN \A j \in 1..(i - 1) : timers[j].kind # "settle"
    ELSE i = 1 /\ timers[i].term \notin unopened

\* Mutant of SettleTimer: the settle callback forgets trackedExecutions.set.
SettleTimerUntracked(i) ==
    LET t == timers[i].term
        name == tname[timers[i].term]
        command == timers[i].cmd IN
    /\ timers[i].kind = "settle"
    /\ CanFire(i)
    /\ timers' = RemoveTimer(i)
    /\ \/ /\ nExecs < MaxExecs
          /\ nExecs' = nExecs + 1
          /\ markRunning(name)
          /\ live' = IF IsOpen(t) THEN live \cup {<<nExecs + 1, t>>} ELSE live
          /\ ev' = Event("settle", t, FALSE, IF IsOpen(t) THEN "cap" ELSE "lost",
                         command)
          /\ UNCHANGED trackedExecutions
       \/ /\ ~IsOpen(t)
          /\ UNCHANGED <<nExecs, trackedExecutions, runningTerminals, live, ev>>
    /\ UNCHANGED <<terminals, nTerms, tname, unopened, si, pendingCommands,
                   lastClickKey, cmdActive>>

\* The settle callback of the reuse branch with shell integration:
\* existing.shellIntegration!.executeCommand(command), record the execution, onStart.
\* On a terminal closed in the meantime the call either throws (the callback ends there)
\* or returns an execution that never runs ("lost").
SettleTimer(i) ==
    LET t == timers[i].term
        name == tname[timers[i].term]
        command == timers[i].cmd IN
    /\ timers[i].kind = "settle"
    /\ CanFire(i)
    /\ timers' = RemoveTimer(i)
    /\ \/ /\ nExecs < MaxExecs
          /\ nExecs' = nExecs + 1
          /\ trackedExecutions' = [trackedExecutions EXCEPT ![name] = nExecs + 1]
          /\ markRunning(name)
          /\ live' = IF IsOpen(t) THEN live \cup {<<nExecs + 1, t>>} ELSE live
          /\ ev' = Event("settle", t, FALSE, IF IsOpen(t) THEN "cap" ELSE "lost",
                         command)
       \/ /\ ~IsOpen(t)
          /\ UNCHANGED <<nExecs, trackedExecutions, runningTerminals, live, ev>>
    /\ UNCHANGED <<terminals, nTerms, tname, unopened, si, pendingCommands,
                   lastClickKey, cmdActive>>

\* Mutant of GraceExistingTimer: the callback sends its own command without comparing it
\* with the queued one.
GraceExistingTimerUnconditional(i) ==
    LET t == timers[i].term
        name == tname[timers[i].term]
        command == timers[i].cmd IN
    /\ timers[i].kind = "graceExisting"
    /\ CanFire(i)
    /\ timers' = RemoveTimer(i)
    /\ pendingCommands' = [pendingCommands EXCEPT ![name] = NoCmd]
    /\ markRunning(name)
    /\ ev' = Event("graceExisting", t, FALSE, IF IsOpen(t) THEN "raw" ELSE "lost", command)
    /\ UNCHANGED <<terminals, nTerms, tname, unopened, si, trackedExecutions, nExecs,
                   live, lastClickKey, cmdActive>>

\* The grace callback of the reuse branch without shell integration: if the queued
\* command is still this one, delete it and sendText it; then onStart(existing.name).
\* sendText on a terminal closed in the meantime either throws (onStart is not reached)
\* or sends into nothing ("lost").
GraceExistingTimer(i) ==
    LET t == timers[i].term
        name == tname[timers[i].term]
        command == timers[i].cmd IN
    /\ timers[i].kind = "graceExisting"
    /\ CanFire(i)
    /\ timers' = RemoveTimer(i)
    /\ IF pendingCommands[name] = command
       THEN /\ pendingCommands' = [pendingCommands EXCEPT ![name] = NoCmd]
            /\ \/ /\ markRunning(name)
                  /\ ev' = Event("graceExisting", t, FALSE,
                                 IF IsOpen(t) THEN "raw" ELSE "lost", command)
               \/ /\ ~IsOpen(t)
                  /\ ev' = Event("graceExisting", t, FALSE, "none", NoCmd)
                  /\ UNCHANGED runningTerminals
       ELSE /\ markRunning(name)
            /\ ev' = Event("graceExisting", t, FALSE, "none", NoCmd)
            /\ UNCHANGED pendingCommands
    /\ UNCHANGED <<terminals, nTerms, tname, unopened, si, trackedExecutions, nExecs,
                   live, lastClickKey, cmdActive>>

\* Mutant of GraceNewTimer: the fallback forgets pendingCommands.delete.
GraceNewTimerKeepsPending(i) ==
    LET t == timers[i].term
        name == tname[timers[i].term]
        command == timers[i].cmd IN
    /\ timers[i].kind = "graceNew"
    /\ CanFire(i)
    /\ timers' = RemoveTimer(i)
    /\ IF pendingCommands[name] = command
       THEN \/ ev' = Event("graceNew", t, FALSE,
                           IF IsOpen(t) THEN "raw" ELSE "lost", command)
            \/ /\ ~IsOpen(t)
               /\ ev' = Event("graceNew", t, FALSE, "none", NoCmd)
       ELSE UNCHANGED ev
    /\ UNCHANGED <<terminals, nTerms, tname, unopened, si, runningTerminals,
                   pendingCommands, trackedExecutions, nExecs, live, lastClickKey,
                   cmdActive>>

\* Mutant of GraceNewTimer: the fallback, which can detect no completion, marks the
\* name stopped when it dispatches.
GraceNewTimerMarksStopped(i) ==
    LET t == timers[i].term
        name == tname[timers[i].term]
        command == timers[i].cmd IN
    /\ timers[i].kind = "graceNew"
    /\ CanFire(i)
    /\ timers' = RemoveTimer(i)
    /\ IF pendingCommands[name] = command
       THEN /\ pendingCommands' = [pendingCommands EXCEPT ![name] = NoCmd]
            /\ markStopped(name)
            /\ \/ ev' = Event("graceNew", t, FALSE,
                              IF IsOpen(t) THEN "raw" ELSE "lost", command)
               \/ /\ ~IsOpen(t)
                  /\ ev' = Event("graceNew", t, FALSE, "none", NoCmd)
       ELSE UNCHANGED <<pendingCommands, runningTerminals, ev>>
    /\ UNCHANGED <<terminals, nTerms, tname, unopened, si, trackedExecutions, nExecs,
                   live, lastClickKey, cmdActive>>

\* Mutant of GraceNewTimer: the callback sends its own command without comparing it
\* with the queued one.
GraceNewTimerUnconditional(i) ==
    LET t == timers[i].term
        name == tname[timers[i].term]
        command == timers[i].cmd IN
    /\ timers[i].kind = "graceNew"
    /\ CanFire(i)
    /\ timers' = RemoveTimer(i)
    /\ pendingCommands' = [pendingCommands EXCEPT ![name] = NoCmd]
    /\ ev' = Event("graceNew", t, FALSE, IF IsOpen(t) THEN "raw" ELSE "lost", command)
    /\ UNCHANGED <<terminals, nTerms, tname, unopened, si, runningTerminals,
                   trackedExecutions, nExecs, live, lastClickKey, cmdActive>>

\* The grace callback of the new-terminal branch: if the queued command of script.label
\* is still this one, delete it and sendText it into the created terminal.
GraceNewTimer(i) ==
    LET t == timers[i].term
        name == tname[timers[i].term]
        command == timers[i].cmd IN
    /\ timers[i].kind = "graceNew"
    /\ CanFire(i)
    /\ timers' = RemoveTimer(i)
    /\ IF pendingCommands[name] = command
       THEN /\ pendingCommands' = [pendingCommands EXCEPT ![name] = NoCmd]
            /\ \/ ev' = Event("graceNew", t, FALSE,
                              IF IsOpen(t) THEN "raw" ELSE "lost", command)
               \/ /\ ~IsOpen(t)
                  /\ ev' = Event("graceNew", t, FALSE, "none", NoCmd)
       ELSE UNCHANGED <<pendingCommands, ev>>
    /\ UNCHANGED <<terminals, nTerms, tname, unopened, si, runningTerminals,
                   trackedExecutions, nExecs, live, lastClickKey, cmdActive>>

\* ---------------------------------------------------------------------- Spec

\* The tracker driven by the host's events, the timers and the run and stop commands.
\* A double-click acts on the tracker's tables exactly as runway.run or runway.stop does
\* and a single click leaves them alone, so the click command adds no table state.
Next ==
    \/ \E name \in Labels : UserOpenTerminal(name) /\ UNCHANGED <<storeVars, discoveryVars>>
    \/ \E t \in Terms : TerminalOpened(t) /\ UNCHANGED <<storeVars, discoveryVars>>
    \/ \E t \in Terms : TerminalClosed(t) /\ UNCHANGED <<storeVars, discoveryVars>>
    \/ \E t \in Terms : ShellIntegrationChanged(t) /\ UNCHANGED <<storeVars, discoveryVars>>
    \/ \E x \in live : ShellExecutionEnded(x) /\ UNCHANGED <<storeVars, discoveryVars>>
    \/ \E t \in Terms : ForeignExecutionEnded(t) /\ UNCHANGED <<storeVars, discoveryVars>>
    \/ \E s \in ScriptIds, command \in Commands : Run(s, command) /\ UNCHANGED <<storeVars, discoveryVars>>
    \/ \E s \in ScriptIds : Stop(s) /\ UNCHANGED <<storeVars, discoveryVars>>
    \/ \E i \in 1..Len(timers) : SettleTimer(i) /\ UNCHANGED <<storeVars, discoveryVars>>
    \/ \E i \in 1..Len(timers) : GraceExistingTimer(i) /\ UNCHANGED <<storeVars, discoveryVars>>
    \/ \E i \in 1..Len(timers) : GraceNewTimer(i) /\ UNCHANGED <<storeVars, discoveryVars>>

Spec == Init /\ [][Next]_vars

\* The same with the runway.itemClicked command and its click memory.
NextClick ==
    \/ Next
    \/ \E s \in ScriptIds, fast \in BOOLEAN :
          ItemClicked(s, fast) /\ UNCHANGED <<storeVars, discoveryVars>>

SpecClick == Init /\ [][NextClick]_vars

\* ------------------------------------------------------------------- stores

\* Memento.get(key) ?? fallback.
MementoGet(key, fallback) ==
    IF key \in DOMAIN workspaceState THEN workspaceState[key] ELSE fallback

\* Memento.update(key, value).
MementoUpdate(key, value) ==
    workspaceState' = [k \in DOMAIN workspaceState \cup {key} |->
                          IF k = key THEN value ELSE workspaceState[k]]

\* SourceStore.getAll(): the sources in the order they were added.
getAll == MementoGet("runway.sources", <<>>)

\* Mutant of SourceStoreAdd: the source is appended without looking for an equal one.
SourceStoreAddUnchecked(source) ==
    /\ MementoUpdate("runway.sources", Append(getAll, source))
    /\ call' = [op |-> "add", arg |-> source, before |-> getAll, returned |-> "true"]
    /\ UNCHANGED trackerVars

\* SourceStore.add(source): refuses a source whose (type, path) is already stored.
SourceStoreAdd(source) ==
    LET all == getAll IN
    /\ IF \E i \in 1..Len(all) : all[i].path = source.path /\ all[i].type = source.type
       THEN /\ call' = [op |-> "add", arg |-> source, before |-> all, returned |-> "false"]
            /\ UNCHANGED workspaceState
       ELSE /\ MementoUpdate("runway.sources", Append(all, source))
            /\ call' = [op |-> "add", arg |-> source, before |-> all, returned |-> "true"]
    /\ UNCHANGED trackerVars

\* Mutant of SourceStoreRemove: only the directory source of that path is removed.
SourceStoreRemoveDirectoryOnly(sourcePath) ==
    /\ MementoUpdate("runway.sources",
                     SelectSeq(getAll, LAMBDA x : ~(x.path = sourcePath
                                                     /\ x.type = "directory")))
    /\ call' = [op |-> "remove", arg |-> sourcePath, before |-> getAll,
                returned |-> "none"]
    /\ UNCHANGED trackerVars

\* SourceStore.remove(sourcePath): keeps the sources of every other path.
SourceStoreRemove(sourcePath) ==
    /\ MementoUpdate("runway.sources", SelectSeq(getAll, LAMBDA x : x.path # sourcePath))
    /\ call' = [op |-> "remove", arg |-> sourcePath, before |-> getAll,
                returned |-> "none"]
    /\ UNCHANGED trackerVars

\* ScriptStore.all() of the store kept under memento key `key`: id -> value, for the ids
\* that have an entry.
ScriptStoreAll(key) == MementoGet(key, <<>>)

\* ScriptStore.get(id).
ScriptStoreGet(key, id) ==
    IF id \in DOMAIN ScriptStoreAll(key) THEN ScriptStoreAll(key)[id] ELSE Undefined

\* ScriptStore.set(id, value).
ScriptStoreSet(key, id, value) ==
    MementoUpdate(key, [k \in DOMAIN ScriptStoreAll(key) \cup {id} |->
                           IF k = id THEN value ELSE ScriptStoreAll(key)[k]])

\* ScriptStore.clear(id).
ScriptStoreClear(key, id) ==
    MementoUpdate(key, [k \in DOMAIN ScriptStoreAll(key) \ {id} |-> ScriptStoreAll(key)[k]])

\* The memento keys of the two ScriptStores made in activate().
overrides == "runway.overrides"

\* Mutant of labels: the display names are kept under the overrides' key.
labelsUnderOverridesKey == "runway.overrides"

labels == "runway.labels"

\* ScriptItem: the command a script runs (override ?? script.defaultCommand).
effectiveCommand(s) ==
    IF ScriptStoreGet(overrides, s) # Undefined
    THEN ScriptStoreGet(overrides, s)
    ELSE defaultCommand(s)

\* ScriptItem: the label shown in the tree (the custom label if there is one, else
\* script.label).
displayLabel(s) ==
    IF ScriptStoreGet(labels, s) \notin {Undefined, ""}
    THEN ScriptStoreGet(labels, s)
    ELSE labelOf(s)

\* Mutant of SetOverride: the input box has no validateInput.
SetOverrideUnvalidated(s, input) ==
    /\ IF input = Undefined
       THEN UNCHANGED workspaceState
       ELSE ScriptStoreSet(overrides, s, trim(input))
    /\ UNCHANGED <<trackerVars, call>>

\* runway.setOverride: the input box accepts no input that is empty after trimming; a
\* cancelled box (Undefined) changes nothing.
SetOverride(s, input) ==
    /\ IF input = Undefined \/ trim(input) = ""
       THEN UNCHANGED workspaceState
       ELSE ScriptStoreSet(overrides, s, trim(input))
    /\ UNCHANGED <<trackerVars, call>>

\* runway.clearOverride.
ClearOverride(s) ==
    /\ ScriptStoreClear(overrides, s)
    /\ UNCHANGED <<trackerVars, call>>

\* runway.setLabel: an input that is empty after trimming clears the display name.
SetLabel(s, input) ==
    /\ IF input = Undefined
       THEN UNCHANGED workspaceState
       ELSE IF trim(input) = ""
            THEN ScriptStoreClear(labels, s)
            ELSE ScriptStoreSet(labels, s, trim(input))
    /\ UNCHANGED <<trackerVars, call>>

\* runway.clearLabel.
ClearLabel(s) ==
    /\ ScriptStoreClear(labels, s)
    /\ UNCHANGED <<trackerVars, call>>

\* runway.run with the command resolved from the override store.
RunEffective(s) ==
    /\ Run(s, effectiveCommand(s))
    /\ UNCHANGED storeVars

\* The override and display-name commands, and starts with the resolved command.
NextStore ==
    \/ \E s \in ScriptIds, input \in OverrideInputs \cup {Undefined} :
          SetOverride(s, input) /\ UNCHANGED discoveryVars
    \/ \E s \in ScriptIds : ClearOverride(s) /\ UNCHANGED discoveryVars
    \/ \E s \in ScriptIds, input \in LabelInputs \cup {Undefined} :
          SetLabel(s, input) /\ UNCHANGED discoveryVars
    \/ \E s \in ScriptIds : ClearLabel(s) /\ UNCHANGED discoveryVars
    \/ \E s \in ScriptIds : RunEffective(s) /\ UNCHANGED discoveryVars

SpecStore == Init /\ [][NextStore]_vars

\* Mutant of resolveCommand: the default command is preferred.
resolveCommandDefaultFirst(s, dflt) == dflt

\* The command resolution of runway.run, of the double-click start and of
\* openInSystemTerminal for an item whose script carries default command dflt:
\* override ?? script.defaultCommand.
resolveCommand(s, dflt) ==
    IF ScriptStoreGet(overrides, s) # Undefined
    THEN ScriptStoreGet(overrides, s)
    ELSE dflt

\* runway.run on an item whose script carries default command dflt.
RunItem(s, dflt) ==
    /\ Run(s, resolveCommand(s, dflt))
    /\ UNCHANGED storeVars

\* runway.itemClicked on an item whose script carries default command dflt.
ItemClickedItem(s, fast, dflt) ==
    /\ itemClickedHandler(s, fast, {resolveCommand(s, dflt)})
    /\ UNCHANGED storeVars

\* runway.openInSystemTerminal.<app>: the resolved command is handed to the system
\* terminal application; no table of the tracker is touched.
OpenInSystemTerminal(s, dflt) ==
    /\ ev' = Event("openInSystemTerminal", NoTerm, FALSE, "system", resolveCommand(s, dflt))
    /\ UNCHANGED <<terminals, nTerms, tname, unopened, si, runningTerminals,
                   pendingCommands, trackedExecutions, nExecs, live, timers,
                   lastClickKey, cmdActive>>
    /\ UNCHANGED storeVars

\* The three ways to run a script, with overrides being set and cleared.
NextResolve ==
    \/ \E s \in ScriptIds, input \in OverrideInputs \cup {Undefined} :
          SetOverride(s, input) /\ UNCHANGED discoveryVars
    \/ \E s \in ScriptIds : ClearOverride(s) /\ UNCHANGED discoveryVars
    \/ \E s \in ScriptIds, dflt \in Commands : RunItem(s, dflt) /\ UNCHANGED discoveryVars
    \/ \E s \in ScriptIds, fast \in BOOLEAN, dflt \in Commands :
          ItemClickedItem(s, fast, dflt) /\ UNCHANGED discoveryVars
    \/ \E s \in ScriptIds, dflt \in Commands :
          OpenInSystemTerminal(s, dflt) /\ UNCHANGED discoveryVars

SpecResolve == Init /\ [][NextResolve]_vars

\* The source registry under its add and remove operations.
NextRegistry ==
    \/ \E source \in Sources : SourceStoreAdd(source) /\ UNCHANGED discoveryVars
    \/ \E sourcePath \in Paths : SourceStoreRemove(sourcePath) /\ UNCHANGED discoveryVars

SpecRegistry == Init /\ [][NextRegistry]_vars

\* ---------------------------------------------------------------- discovery

\* Absolute paths are kept as their segments: path.join, path.dirname, path.basename.
pathJoin(dir, name) == Append(dir, name)

pathDirname(p) == SubSeq(p, 1, Len(p) - 1)

pathBasename(p) == p[Len(p)]

\* path.extname of the file names that occur.
pathExtname(name) ==
    CASE name \in {"x.sh", "z.sh"} -> ".sh"
      [] name = "y.py" -> ".py"
      [] name = "n.txt" -> ".txt"
      [] name = "package.json" -> ".json"
      [] name = "package-lock.json" -> ".json"
      [] name = "pnpm-lock.yaml" -> ".yaml"
      [] name = "bun.lockb" -> ".lockb"
      [] name = "yarn.lock" -> ".lock"
      [] OTHER -> ""

\* The file names above in the order Array.prototype.sort() gives them.
sortedNames == <<"n.txt", "x.sh", "y.py", "z.sh">>

\* files.sort() of a set of file names.
sortNames(names) == SelectSeq(sortedNames, LAMBDA n : n \in names)

\* The workspace root, and displayPath: the path relative to it when inside it.
wsRoot == <<"a">>

displayPath(absPath) ==
    IF Len(absPath) >= Len(wsRoot) /\ SubSeq(absPath, 1, Len(wsRoot)) = wsRoot
    THEN SubSeq(absPath, Len(wsRoot) + 1, Len(absPath))
    ELSE absPath

\* FILE_SCRIPT_TYPES: two of the ten types with extensions, which all behave alike, and
\* the makefile type, which has none.  makeCommand is kept as the program and its argument.
FILE_SCRIPT_TYPES ==
    << [kind |-> "shell", label |-> "Shell Scripts", extensions |-> {".sh", ".bash", ".zsh"},
        program |-> "bash"],
       [kind |-> "python", label |-> "Python Scripts", extensions |-> {".py"},
        program |-> "python3"],
       [kind |-> "makefile", label |-> "Makefile", extensions |-> {},
        program |-> "make"] >>

\* A parsed package.json: its name ("undefined" if it has none), its packageManager
\* (name and version, <<>> if it has none) and its scripts (name and command words, in
\* the order of the file; <<>> if there are none).
NoPkg == [name |-> Undefined, packageManager |-> <<>>, scripts |-> <<>>]

\* A file: whether it can be read, whether it parses as JSON and to what, and the lines
\* of a Makefile: the target name of a line that the target pattern matches, "#" for
\* any other line.
File(readable, parses, pkg, lines) ==
    [readable |-> readable, parses |-> parses, pkg |-> pkg, lines |-> lines]

PlainFile == File(TRUE, FALSE, NoPkg, <<>>)

\* fs.existsSync.
existsSync(p) == p \in DOMAIN fs.files \/ p \in DOMAIN fs.dirs

\* fs.readFileSync(p, "utf8") returns (does not throw).
canRead(p) == p \in DOMAIN fs.files /\ fs.files[p].readable

\* JSON.parse(fs.readFileSync(p, "utf8")) returns (does not throw).
canParse(p) == canRead(p) /\ fs.files[p].parses

\* fs.readdirSync(d) returns (does not throw): d is a directory that may be listed.
canList(d) == d \in DOMAIN fs.dirs /\ fs.dirs[d]

\* fs.readdirSync(d).
readdirSync(d) ==
    {pathBasename(q) : q \in {r \in DOMAIN fs.files \cup DOMAIN fs.dirs :
                                 Len(r) > 0 /\ pathDirname(r) = d}}

\* String.prototype.startsWith on a packageManager value.
startsWith(v, prefix) == Len(v) > 0 /\ v[1] = prefix

\* scripts[k] of a scripts object (<<>> if there is no such script).
scriptText(scripts, k) ==
    IF \E i \in 1..Len(scripts) : scripts[i].name = k
    THEN scripts[CHOOSE i \in 1..Len(scripts) : scripts[i].name = k].cmd
    ELSE <<>>

\* Array.prototype.join("\n") of command texts.
RECURSIVE joinLines(_)
joinLines(texts) ==
    IF texts = <<>> THEN <<>>
    ELSE IF Len(texts) = 1 THEN texts[1]
    ELSE texts[1] \o <<"\n">> \o joinLines(Tail(texts))

\* /\bword\b/.test(text).
hasWord(text, word) == \E i \in 1..Len(text) : text[i] = word

\* /\bbun\s/.test(text): the word bun with white space after it.
hasWordThenSpace(text, word) == \E i \in 1..(Len(text) - 1) : text[i] = word

\* inferPMFromScripts.
inferPMFromScripts(scripts) ==
    LET LIFECYCLE == <<"start", "dev", "build", "run">>
        combined == joinLines(SelectSeq([i \in 1..4 |-> scriptText(scripts, LIFECYCLE[i])],
                                        LAMBDA t : t # <<>>))
    IN  IF hasWord(combined, "pnpm") THEN "pnpm"
        ELSE IF hasWord(combined, "bunx") \/ hasWordThenSpace(combined, "bun") THEN "bun"
        ELSE IF hasWord(combined, "yarn") THEN "yarn"
        ELSE IF hasWord(combined, "npx") THEN "npm"
        ELSE Undefined

\* detectPM.
detectPM(pkgDir) ==
    LET manifest == pathJoin(pkgDir, "package.json")
        pkg == fs.files[manifest].pkg
    IN  IF ~canParse(manifest) THEN "npm"
        ELSE IF startsWith(pkg.packageManager, "pnpm") THEN "pnpm"
        ELSE IF startsWith(pkg.packageManager, "yarn") THEN "yarn"
        ELSE IF startsWith(pkg.packageManager, "bun") THEN "bun"
        ELSE IF existsSync(pathJoin(pkgDir, "pnpm-lock.yaml")) THEN "pnpm"
        ELSE IF existsSync(pathJoin(pkgDir, "bun.lockb")) THEN "bun"
        ELSE IF existsSync(pathJoin(pkgDir, "yarn.lock")) THEN "yarn"
        ELSE IF existsSync(pathJoin(pkgDir, "package-lock.json")) THEN "npm"
        ELSE IF inferPMFromScripts(pkg.scripts) # Undefined
             THEN inferPMFromScripts(pkg.scripts)
        ELSE "npm"

\* The targets of seq without those in seen, each once, in the order of first occurrence.
RECURSIVE unseenTargets(_, _)
unseenTargets(seq, seen) ==
    IF seq = <<>> THEN <<>>
    ELSE IF Head(seq) \in seen THEN unseenTargets(Tail(seq), seen)
    ELSE <<Head(seq)>> \o unseenTargets(Tail(seq), seen \cup {Head(seq)})

\* Mutant of parseMakeTargets: every match is kept.
parseMakeTargetsEveryMatch(filePath) ==
    IF ~canRead(filePath) THEN <<>>
    ELSE SelectSeq(fs.files[filePath].lines, LAMBDA l : l # "#")

\* parseMakeTargets: the names the target pattern matches, each kept at its first
\* match; [] when the file cannot be read.
parseMakeTargets(filePath) ==
    IF ~canRead(filePath) THEN <<>>
    ELSE unseenTargets(SelectSeq(fs.files[filePath].lines, LAMBDA l : l # "#"), {})

\* A Script; fields a kind does not set are <<>> (paths, id, defaultCommand) or
\* "undefined" (strings).  A label is a display path, or the one segment of a name.
Script(kind, label, id, dflt, cwd, filePath, sourcePath, pm, categoryKind) ==
    [kind |-> kind, label |-> label, id |-> id, defaultCommand |-> dflt, cwd |-> cwd,
     filePath |-> filePath, sourcePath |-> sourcePath, pm |-> pm,
     categoryKind |-> categoryKind]

\* ScriptProvider.packageGroupItem: <<>> for undefined.
packageGroupItem(pkgPath) ==
    IF ~canParse(pkgPath) THEN <<>>
    ELSE LET pkg == fs.files[pkgPath].pkg
             dir == pathDirname(pkgPath)
         IN  IF pkg.scripts = <<>> THEN <<>>
             ELSE << Script("packageGroup",
                            IF pkg.name \notin {Undefined, ""}
                            THEN <<pkg.name>> ELSE <<pathBasename(dir)>>,
                            <<>>, <<>>, dir, pkgPath, pkgPath, detectPM(dir), Undefined) >>

\* Mutant of npmScripts: every default command uses npm, whatever the group's manager.
npmScriptsAlwaysNpm(group) ==
    IF ~canParse(group.filePath) THEN <<>>
    ELSE LET scripts == fs.files[group.filePath].pkg.scripts
         IN  [i \in 1..Len(scripts) |->
                 Script("npmScript", <<scripts[i].name>>,
                        <<"npm", group.filePath, scripts[i].name>>,
                        <<"npm", "run", scripts[i].name>>,
                        group.cwd, group.filePath, <<>>, Undefined, Undefined)]

\* ScriptProvider.npmScripts.
npmScripts(group) ==
    IF ~canParse(group.filePath) THEN <<>>
    ELSE LET scripts == fs.files[group.filePath].pkg.scripts
             pm == IF group.pm # Undefined THEN group.pm ELSE "npm"
         IN  [i \in 1..Len(scripts) |->
                 Script("npmScript", <<scripts[i].name>>,
                        <<"npm", group.filePath, scripts[i].name>>,
                        <<pm, "run", scripts[i].name>>,
                        group.cwd, group.filePath, <<>>, Undefined, Undefined)]

\* ScriptProvider.makeTargets.
makeTargets(group) ==
    LET targets == parseMakeTargets(group.filePath)
    IN  [i \in 1..Len(targets) |->
            Script("makeTarget", <<targets[i]>>, <<"make", group.filePath, targets[i]>>,
                   <<"make", targets[i]>>, group.cwd, group.filePath, <<>>, Undefined,
                   Undefined)]

\* Sources of one type, in registry order.
sourcesOfType(all, type) == SelectSeq(all, LAMBDA x : x.type = type)

\* roots, step 2, for one directory source: the names are probed from position i on;
\* the first that exists ends the probing, with a group only if it has targets.
RECURSIVE makeGroupItem(_, _)
makeGroupItem(src, i) ==
    LET names == <<"Makefile", "makefile", "GNUmakefile">>
        mkPath == pathJoin(src.path, names[i])
    IN  IF i > 3 THEN <<>>
        ELSE IF ~existsSync(mkPath) THEN makeGroupItem(src, i + 1)
        ELSE IF parseMakeTargets(mkPath) = <<>> THEN <<>>
        ELSE << Script("makeGroup", displayPath(src.path), <<>>, <<>>, src.path, mkPath,
                       src.path, Undefined, Undefined) >>

\* Concatenation of a sequence of sequences.
RECURSIVE concat(_)
concat(seqs) == IF seqs = <<>> THEN <<>> ELSE Head(seqs) \o concat(Tail(seqs))

\* The files of a directory with an extension of the type.
filesOfType(dir, type) ==
    {f \in readdirSync(dir) : pathExtname(f) \in type.extensions}

\* fileCategoryHeaders, the loop over the directory sources for one type: "yes" when a
\* directory with a file of the type is found, "no" when none is, "throws" when a
\* directory that exists cannot be listed before one is found.
RECURSIVE dirsHaveAny(_, _)
dirsHaveAny(dirSources, type) ==
    IF dirSources = <<>> THEN "no"
    ELSE IF ~existsSync(Head(dirSources).path) THEN dirsHaveAny(Tail(dirSources), type)
    ELSE IF ~canList(Head(dirSources).path) THEN "throws"
    ELSE IF filesOfType(Head(dirSources).path, type) # {} THEN "yes"
    ELSE dirsHaveAny(Tail(dirSources), type)

\* fileCategoryHeaders for one type: whether it throws, and the category item if any.
categoryHeader(all, type) ==
    LET inDirs == dirsHaveAny(sourcesOfType(all, "directory"), type)
        fileSources == sourcesOfType(all, "file")
        hasAny == \/ inDirs = "yes"
                  \/ \E i \in 1..Len(fileSources) :
                        pathExtname(pathBasename(fileSources[i].path)) \in type.extensions
    IN  IF type.extensions = {} THEN [throws |-> FALSE, items |-> <<>>]
        ELSE IF inDirs = "throws" THEN [throws |-> TRUE, items |-> <<>>]
        ELSE IF hasAny
             THEN [throws |-> FALSE,
                   items |-> << Script("fileCategory", <<type.label>>, <<>>, <<>>, <<>>, <<>>,
                                       <<>>, Undefined, type.kind) >>]
        ELSE [throws |-> FALSE, items |-> <<>>]

\* fileCategoryHeaders: the headers of the types in table order; it throws when the
\* loop of some type does.
fileCategoryHeaders(all) ==
    LET n == Len(FILE_SCRIPT_TYPES)
        headers == [i \in 1..n |-> categoryHeader(all, FILE_SCRIPT_TYPES[i])]
    IN  [throws |-> \E i \in 1..n : headers[i].throws,
         items |-> concat([i \in 1..n |-> headers[i].items])]

\* ScriptProvider.roots, with `all` what this.sources.getAll() returns: package groups,
\* then Makefile groups, then file categories.
roots(all) ==
    LET headers == fileCategoryHeaders(all)
        manifests == sourcesOfType(all, "packageJson")
        directories == sourcesOfType(all, "directory")
    IN  [throws |-> headers.throws,
         items |-> concat([i \in 1..Len(manifests) |-> packageGroupItem(manifests[i].path)])
                   \o concat([i \in 1..Len(directories) |->
                                 makeGroupItem(directories[i], 1)])
                   \o headers.items]

\* ScriptProvider.fileScriptItem.
fileScriptItem(absPath, cwd, type, filename) ==
    Script("fileScript", displayPath(absPath), <<"file", absPath>>,
           <<type.program, filename>>, cwd, absPath, absPath, Undefined, Undefined)

\* fileCategoryChildren, the loop over the directory sources: the items of the files not
\* yet seen, directory by directory, each directory's files sorted.
RECURSIVE dirFileItems(_, _, _)
dirFileItems(dirSources, type, seen) ==
    IF dirSources = <<>> THEN <<>>
    ELSE LET dir == Head(dirSources).path
             files == IF existsSync(dir) /\ canList(dir)
                      THEN SelectSeq(sortNames(filesOfType(dir, type)),
                                     LAMBDA f : pathJoin(dir, f) \notin seen)
                      ELSE <<>>
         IN  [i \in 1..Len(files) |->
                 fileScriptItem(pathJoin(dir, files[i]), dir, type, files[i])]
             \o dirFileItems(Tail(dirSources), type,
                             seen \cup {pathJoin(dir, files[i]) : i \in 1..Len(files)})

\* Mutant of fileSourceItems: a file source is listed whether or not its path was seen.
RECURSIVE fileSourceItemsUnseen(_, _, _)
fileSourceItemsUnseen(fileSources, type, seen) ==
    IF fileSources = <<>> THEN <<>>
    ELSE LET path == Head(fileSources).path
         IN  IF pathExtname(pathBasename(path)) \notin type.extensions
             THEN fileSourceItemsUnseen(Tail(fileSources), type, seen)
             ELSE <<fileScriptItem(path, pathDirname(path), type, pathBasename(path))>>
                  \o fileSourceItemsUnseen(Tail(fileSources), type, seen)

\* fileCategoryChildren, the loop over the file sources.
RECURSIVE fileSourceItems(_, _, _)
fileSourceItems(fileSources, type, seen) ==
    IF fileSources = <<>> THEN <<>>
    ELSE LET path == Head(fileSources).path
         IN  IF path \in seen \/ pathExtname(pathBasename(path)) \notin type.extensions
             THEN fileSourceItems(Tail(fileSources), type, seen)
             ELSE <<fileScriptItem(path, pathDirname(path), type, pathBasename(path))>>
                  \o fileSourceItems(Tail(fileSources), type, seen \cup {path})

\* ScriptProvider.fileCategoryChildren, with `all` what this.sources.getAll() returns:
\* whether it throws (a directory source that exists cannot be listed), and the file
\* scripts of the category otherwise.
fileCategoryChildren(all, cat) ==
    LET known == {i \in 1..Len(FILE_SCRIPT_TYPES) :
                     FILE_SCRIPT_TYPES[i].kind = cat.categoryKind}
        type == FILE_SCRIPT_TYPES[CHOOSE i \in known : TRUE]
        dirSources == sourcesOfType(all, "directory")
        fromDirs == dirFileItems(dirSources, type, {})
    IN  IF known = {} THEN [throws |-> FALSE, items |-> <<>>]
        ELSE IF \E i \in 1..Len(dirSources) :
                   existsSync(dirSources[i].path) /\ ~canList(dirSources[i].path)
             THEN [throws |-> TRUE, items |-> <<>>]
        ELSE [throws |-> FALSE,
              items |-> fromDirs
                        \o fileSourceItems(sourcesOfType(all, "file"), type,
                                           {fromDirs[i].filePath : i \in 1..Len(fromDirs)})]

\* ScriptProvider.getChildren(parent).
getChildren(all, parent) ==
    CASE parent.kind = "packageGroup" -> [throws |-> FALSE, items |-> npmScripts(parent)]
      [] parent.kind = "makeGroup" -> [throws |-> FALSE, items |-> makeTargets(parent)]
      [] parent.kind = "fileCategory" -> fileCategoryChildren(all, parent)
      [] OTHER -> [throws |-> FALSE, items |-> <<>>]

\* What the tree view gets from the provider: getChildren() for the roots and, when that
\* returns, getChildren(root) for each root (all roots are shown expanded).
discover(all) ==
    LET top == roots(all)
    IN  IF top.throws
        THEN [status |-> "throws", roots |-> <<>>, children |-> <<>>]
        ELSE [status |-> "ok", roots |-> top.items,
              children |-> [i \in 1..Len(top.items) |-> getChildren(all, top.items[i])]]

\* The items a pass result shows, and the identities among them.
itemsOf(t) ==
    {t.roots[i] : i \in 1..Len(t.roots)}
    \cup UNION {{t.children[i].items[j] : j \in 1..Len(t.children[i].items)} :
                   i \in 1..Len(t.children)}

shownIds(t) == {item.id : item \in {x \in itemsOf(t) : x.id # <<>>}}

\* ScriptProvider.refresh(): the view asks the provider again, which reads the registry
\* as the handler left it.
refresh ==
    /\ tree' = discover(getAll')
    /\ inert' = inert \cup {id \in shownIds(tree) \ shownIds(tree') :
                                id \in DOMAIN ScriptStoreAll(overrides)'}

\* No refresh: the view keeps what it shows.
noRefresh == UNCHANGED <<tree, inert>>

\* Mutant of DiscoveryPass: the roots of the pass are added to those already shown.
DiscoveryPassAccumulating ==
    /\ UNCHANGED <<trackerVars, storeVars, fs, inert, notice>>
    /\ tree' = [discover(getAll) EXCEPT !.roots = tree.roots \o @]

\* runway.refresh, or a watcher that saw a change: one discovery pass.
DiscoveryPass ==
    /\ UNCHANGED <<trackerVars, storeVars, fs, notice>>
    /\ refresh

\* addPackageJson with one picked file: only a file called package.json is added, and
\* the view is refreshed when the registry took it.
addPackageJson(absPath) ==
    /\ pathBasename(absPath) = "package.json"
    /\ SourceStoreAdd([type |-> "packageJson", path |-> absPath])
    /\ UNCHANGED <<fs, notice>>
    /\ IF call'.returned = "true" THEN refresh ELSE noRefresh

\* addDirectory with one picked folder.
addDirectory(absPath) ==
    /\ SourceStoreAdd([type |-> "directory", path |-> absPath])
    /\ UNCHANGED <<fs, notice>>
    /\ IF call'.returned = "true" THEN refresh ELSE noRefresh

\* EXT_TO_TYPE.has(path.extname(absPath)).
isSupported(absPath) ==
    \E i \in 1..Len(FILE_SCRIPT_TYPES) :
        pathExtname(pathBasename(absPath)) \in FILE_SCRIPT_TYPES[i].extensions

\* Mutant of addFileLoop: the loop ends at the first file of no known extension.
RECURSIVE addFileLoopStopping(_, _)
addFileLoopStopping(picked, st) ==
    IF picked = <<>> THEN st
    ELSE LET absPath == Head(picked)
             source == [type |-> "file", path |-> absPath]
             stored == \E i \in 1..Len(st.all) : st.all[i] = source
         IN  IF ~isSupported(absPath)
             THEN [st EXCEPT !.warned = Append(@, absPath)]
             ELSE addFileLoopStopping(Tail(picked),
                     [all |-> IF stored THEN st.all ELSE Append(st.all, source),
                      call |-> [op |-> "add", arg |-> source, before |-> st.all,
                                returned |-> IF stored THEN "false" ELSE "true"],
                      added |-> IF stored THEN st.added ELSE st.added + 1,
                      warned |-> st.warned])

\* addFile, the loop over the picked files: a file of no known extension gets a warning
\* and is passed over; any other goes to sources.add, which refuses a stored one.  st is
\* the registry, the record of the last sources.add call, the count of files added and
\* the files warned about.
RECURSIVE addFileLoop(_, _)
addFileLoop(picked, st) ==
    IF picked = <<>> THEN st
    ELSE LET absPath == Head(picked)
             source == [type |-> "file", path |-> absPath]
             stored == \E i \in 1..Len(st.all) : st.all[i] = source
         IN  IF ~isSupported(absPath)
             THEN addFileLoop(Tail(picked), [st EXCEPT !.warned = Append(@, absPath)])
             ELSE addFileLoop(Tail(picked),
                     [all |-> IF stored THEN st.all ELSE Append(st.all, source),
                      call |-> [op |-> "add", arg |-> source, before |-> st.all,
                                returned |-> IF stored THEN "false" ELSE "true"],
                      added |-> IF stored THEN st.added ELSE st.added + 1,
                      warned |-> st.warned])

\* addFile with the files picked in the dialog: the loop, and a refresh of the view when
\* a file was added.
addFile(picked) ==
    LET done == addFileLoop(picked, [all |-> getAll, call |-> call, added |-> 0,
                                     warned |-> <<>>])
    IN  /\ picked # <<>>
        /\ IF done.added > 0
           THEN MementoUpdate("runway.sources", done.all)
           ELSE UNCHANGED workspaceState
        /\ call' = done.call
        /\ notice' = [picked |-> picked, warned |-> done.warned]
        /\ UNCHANGED <<trackerVars, fs>>
        /\ IF done.added > 0 THEN refresh ELSE noRefresh

\* The items the view shows after the last pass.
shownItems == itemsOf(tree)

\* Mutant of removeSource: the overrides are dropped with the source.
removeSourceForgetting(item) ==
    LET src == IF item.sourcePath # <<>> THEN item.sourcePath ELSE item.filePath IN
    /\ src # <<>>
    /\ workspaceState' = [k \in DOMAIN workspaceState \cup {"runway.sources"} |->
                             IF k = "runway.sources"
                             THEN SelectSeq(getAll, LAMBDA x : x.path # src)
                             ELSE IF k = overrides THEN <<>> ELSE workspaceState[k]]
    /\ call' = [op |-> "remove", arg |-> src, before |-> getAll, returned |-> "none"]
    /\ UNCHANGED trackerVars
    /\ UNCHANGED <<fs, notice>>
    /\ refresh

\* runway.removeSource on a shown item.
removeSource(item) ==
    LET src == IF item.sourcePath # <<>> THEN item.sourcePath ELSE item.filePath IN
    /\ src # <<>>
    /\ SourceStoreRemove(src)
    /\ UNCHANGED <<fs, notice>>
    /\ refresh

\* -- package manifests: one manifest /p/package.json, any of the four lock files beside it.
pkgDir == <<"p">>

manifestPath == pathJoin(pkgDir, "package.json")

ManagerFields == {<<>>, <<"npm", "10.2.0">>, <<"pnpm", "9.0.0">>, <<"yarn", "4.1.0">>,
                  <<"bun", "1.1.0">>}

LockFiles == {"pnpm-lock.yaml", "bun.lockb", "yarn.lock", "package-lock.json"}

NameFields == {Undefined, "", "app"}

ScriptEntry(name, cmd) == [name |-> name, cmd |-> cmd]

ScriptFields ==
    { <<>>,
      <<ScriptEntry("build", <<"tsc">>)>>,
      <<ScriptEntry("dev", <<"pnpm", "vite">>), ScriptEntry("build", <<"npx", "tsc">>)>>,
      <<ScriptEntry("start", <<"bun", "run", "x">>), ScriptEntry("build", <<"yarn", "b">>)>>,
      <<ScriptEntry("start", <<"bun">>)>>,
      <<ScriptEntry("dev", <<"yarn", "vite">>), ScriptEntry("run", <<"npx", "x">>)>>,
      <<ScriptEntry("build", <<"npx", "tsc">>)>>,
      <<ScriptEntry("test", <<"pnpm", "test">>), ScriptEntry("lint", <<"yarn", "l">>)>> }

\* The files of a manifest directory.
ManifestFiles(manifest, locks) ==
    [files |-> [q \in {manifestPath} \cup {pathJoin(pkgDir, l) : l \in locks} |->
                   IF q = manifestPath THEN manifest ELSE PlainFile],
     dirs |-> [q \in {pkgDir} |-> TRUE]]

InitPM ==
    /\ InitExtension
    /\ nTerms = 0
    /\ tree = NoTree
    /\ inert = {}
    /\ notice = NoNotice
    /\ \E locks \in SUBSET LockFiles :
          \/ fs = ManifestFiles(File(TRUE, FALSE, NoPkg, <<>>), locks)
          \/ \E name \in NameFields, manager \in ManagerFields, scripts \in ScriptFields :
                fs = ManifestFiles(File(TRUE, TRUE,
                                        [name |-> name, packageManager |-> manager,
                                         scripts |-> scripts], <<>>),
                                   locks)

NextPM ==
    \/ addPackageJson(manifestPath)
    \/ \E item \in shownItems : removeSource(item)
    \/ DiscoveryPass

SpecPM == InitPM /\ [][NextPM]_vars

\* -- build files: the directory /a with any of the three canonical files in it.
MaxLines == 3

makeDir == <<"a">>

canonicalNames == <<"Makefile", "makefile", "GNUmakefile">>

MakeLines == {"all", "clean", "#"}

MakeFile(lines) == File(TRUE, FALSE, NoPkg, lines)

\* What may be at the first canonical name: nothing, a file that cannot be read, or a
\* file of up to MaxLines lines.
MakefileOptions ==
    {<<>>, <<File(FALSE, FALSE, NoPkg, <<"all">>)>>}
    \cup {<<MakeFile(lines)>> : lines \in UNION {[1..k -> MakeLines] : k \in 0..MaxLines}}

\* What may be at the other two names.
OtherMakefileOptions ==
    {<<>>, <<MakeFile(<<"#">>)>>, <<MakeFile(<<"clean">>)>>, <<MakeFile(<<"clean", "all">>)>>}

InitMake ==
    /\ InitExtension
    /\ nTerms = 0
    /\ tree = NoTree
    /\ inert = {}
    /\ notice = NoNotice
    /\ \E first \in MakefileOptions, second \in OtherMakefileOptions,
          third \in OtherMakefileOptions :
          LET at == <<first, second, third>>
          IN  fs = [files |-> [q \in {pathJoin(makeDir, canonicalNames[i]) :
                                        i \in {j \in 1..3 : at[j] # <<>>}} |->
                                  at[CHOOSE i \in 1..3 :
                                        q = pathJoin(makeDir, canonicalNames[i])][1]],
                    dirs |-> [q \in {makeDir} |-> TRUE]]

NextMake ==
    \/ addDirectory(makeDir)
    \/ \E item \in shownItems : removeSource(item)
    \/ DiscoveryPass

SpecMake == InitMake /\ [][NextMake]_vars

\* -- script files: /a with x.sh, n.txt and a Makefile; /b with y.py and z.sh; the
\* manifest /p/package.json.
MaxSources == 2

otherDir == <<"b">>

scriptFiles == {pathJoin(makeDir, "x.sh"), pathJoin(otherDir, "y.py"),
                pathJoin(otherDir, "z.sh")}

\* The files, with the manifest parsable or not, the Makefile readable or not, and /b
\* open to listing or not.
ScriptFilesFs(manifestOk, makefileOk, listable) ==
    [files |-> [q \in scriptFiles \cup {pathJoin(makeDir, "n.txt"),
                                        pathJoin(makeDir, "Makefile"), manifestPath} |->
                   IF q = manifestPath
                   THEN File(TRUE, manifestOk,
                             IF manifestOk
                             THEN [name |-> "app", packageManager |-> <<>>,
                                   scripts |-> <<ScriptEntry("dev", <<"pnpm", "vite">>)>>]
                             ELSE NoPkg,
                             <<>>)
                   ELSE IF q = pathJoin(makeDir, "Makefile")
                   THEN File(makefileOk, FALSE, NoPkg, <<"all">>)
                   ELSE PlainFile],
     dirs |-> [q \in {makeDir, otherDir, pkgDir} |-> q # otherDir \/ listable]]

InitFiles ==
    /\ InitExtension
    /\ tree = NoTree
    /\ inert = {}
    /\ notice = NoNotice
    /\ \E manifestOk \in BOOLEAN, makefileOk \in BOOLEAN, listable \in BOOLEAN :
          fs = ScriptFilesFs(manifestOk, makefileOk, listable)

\* chmod of /b: the directory stops or starts being open to listing.  The view is not
\* asked again by this.
ChangeMode ==
    /\ fs' = [fs EXCEPT !.dirs[otherDir] = ~@]
    /\ UNCHANGED <<trackerVars, storeVars, tree, inert, notice>>

NextFiles ==
    \/ Len(getAll) < MaxSources /\ addPackageJson(manifestPath)
    \/ \E dir \in {makeDir, otherDir} : Len(getAll) < MaxSources /\ addDirectory(dir)
    \/ \E file \in {pathJoin(makeDir, "x.sh"), pathJoin(otherDir, "y.py"),
                     pathJoin(makeDir, "n.txt")} :
          Len(getAll) < MaxSources /\ addFile(<<file>>)
    \/ \E item \in shownItems : removeSource(item)
    \/ ChangeMode
    \/ DiscoveryPass

SpecFiles == InitFiles /\ [][NextFiles]_vars

\* -- overrides and display names of discovered scripts, while sources come and go.
\* runway.setOverride on a shown item: nothing happens for an item without identity or
\* an input that is refused; otherwise the override is written and the view refreshed.
setOverride(item, input) ==
    /\ item.id # <<>>
    /\ SetOverride(item.id, input)
    /\ UNCHANGED <<fs, notice>>
    /\ IF input = Undefined \/ trim(input) = ""
       THEN noRefresh
       ELSE /\ tree' = discover(getAll')
            /\ inert' = inert \ {item.id}

\* runway.clearOverride on a shown item.
clearOverride(item) ==
    /\ item.id # <<>>
    /\ ClearOverride(item.id)
    /\ UNCHANGED <<fs, notice>>
    /\ tree' = discover(getAll')
    /\ inert' = inert \ {item.id}

\* runway.setLabel on a shown item.
setLabel(item, input) ==
    /\ item.id # <<>>
    /\ SetLabel(item.id, input)
    /\ UNCHANGED <<fs, notice>>
    /\ IF input = Undefined THEN noRefresh ELSE refresh

InitLifecycle ==
    /\ InitExtension
    /\ nTerms = 0
    /\ tree = NoTree
    /\ inert = {}
    /\ notice = NoNotice
    /\ fs = ScriptFilesFs(TRUE, TRUE, TRUE)

NextLifecycle ==
    \/ addPackageJson(manifestPath)
    \/ addDirectory(makeDir)
    \/ \E item \in shownItems : removeSource(item)
    \/ \E item \in shownItems, input \in {Undefined, " ", " x "} : setOverride(item, input)
    \/ \E item \in shownItems : clearOverride(item)
    \/ \E item \in shownItems, input \in {Undefined, "", "y"} : setLabel(item, input)
    \/ DiscoveryPass

SpecLifecycle == InitLifecycle /\ [][NextLifecycle]_vars

\* -- the add-file dialog: up to MaxPicked files picked at once, one of them of no known
\* extension.
MaxPicked == 2

pickable == {pathJoin(makeDir, "x.sh"), pathJoin(otherDir, "y.py"),
             pathJoin(otherDir, "z.sh"), pathJoin(makeDir, "n.txt")}

Selections == UNION {[1..k -> pickable] : k \in 1..MaxPicked}

InitAdd ==
    /\ InitExtension
    /\ nTerms = 0
    /\ tree = NoTree
    /\ inert = {}
    /\ notice = NoNotice
    /\ fs = ScriptFilesFs(TRUE, TRUE, TRUE)

NextAdd ==
    \/ \E picked \in Selections : addFile(picked)
    \/ \E item \in shownItems : removeSource(item)
    \/ DiscoveryPass

SpecAdd == InitAdd /\ [][NextAdd]_vars

TypeOK ==
    /\ nTerms \in 0..MaxTerms
    /\ nExecs \in 0..MaxExecs
    /\ runningTerminals \subseteq Labels
    /\ Len(timers) <= MaxTimers

\* ------------------------------------------------------------------- claims

\* The tracker's three tables.
tables == <<runningTerminals, pendingCommands, trackedExecutions>>

\* The second click of a double-click on script s that takes the stop branch.
DoubleClickStop(s) ==
    /\ s = lastClickKey
    /\ HasTerminal(labelOf(s))
    /\ labelOf(s) \in runningTerminals
    /\ ItemClicked(s, TRUE)

\* An explicit stop action for terminal name n that finds a terminal to stop.
ExplicitStop(n) ==
    \E s \in ScriptIds :
        /\ labelOf(s) = n
        /\ HasTerminal(n)
        /\ Stop(s) \/ DoubleClickStop(s)

\* A terminal-closed event for terminal name n.
CloseEvent(n) == \E t \in Terms : tname[t] = n /\ TerminalClosed(t)

\* A completion event for terminal name n whose execution is the recorded one.
MatchedCompletion(n) ==
    \E x \in live :
        /\ tname[x[2]] = n
        /\ trackedExecutions[n] = x[1]
        /\ ShellExecutionEnded(x)

\* The capability was never available in any terminal of name n.
NoCapability(n) == \A t \in 1..nTerms : tname[t] = n => t \notin si

\* Every open event and every settle or reuse-branch grace timer for name n has been
\* delivered.
Delivered(n) ==
    /\ \A t \in unopened : tname[t] # n
    /\ \A i \in 1..Len(timers) :
          tname[timers[i].term] = n => timers[i].kind = "graceNew"

\* C1 (as stated): a terminal name is in the RunningSet if and only if a command was
\* started by the tracker in a terminal of that name and no matching completion,
\* terminal close or explicit stop for the name happened since; a name for which no
\* command was ever started is not in the set.
C1_RunningIffCommandActive ==
    \A n \in Labels : (n \in runningTerminals) <=> cmdActive[n]

\* C1 (amended): a name whose most recently started command has had no matched
\* completion, close or stop since is in the RunningSet once the start's open event or
\* its settle or reuse-branch grace timer has been delivered; and a terminal open at
\* activation or opened by anyone is in the RunningSet right after, command or not.
C1_ActiveCommandIsRunning ==
    /\ \A n \in Labels : (cmdActive[n] /\ Delivered(n)) => n \in runningTerminals
    /\ ev.op = "activate" =>
          \A i \in 1..Len(terminals) : tname[terminals[i]] \in runningTerminals
    /\ ev.op \in {"userOpen", "open"} => tname[ev.term] \in runningTerminals

\* A command was started through the settle path, is recorded and shown Running, and a
\* user-opened terminal with no command is shown Running too.
C1_Witness ==
    /\ cmdActive["a"] /\ Delivered("a") /\ trackedExecutions["a"] # NoExec
    /\ "a" \in runningTerminals
    /\ ~cmdActive["b"] /\ "b" \in runningTerminals

\* C2: a completion event whose execution equals the handle recorded for the terminal's
\* name removes the name from the RunningSet and clears the recorded handle.
C2_MatchedCompletionMarksIdle ==
    [][\A n \in Labels :
          MatchedCompletion(n) =>
             /\ n \notin runningTerminals'
             /\ trackedExecutions'[n] = NoExec]_vars

\* A matched completion has just been handled for a name that had a live execution.
C2_Witness ==
    /\ ev.op = "end"
    /\ tname[ev.term] \notin runningTerminals
    /\ trackedExecutions[tname[ev.term]] = NoExec
    /\ nExecs > 0

\* C3: a completion event whose execution is not the handle recorded for the terminal's
\* name (a stale handle, a foreign execution, or no handle recorded) leaves the
\* RunningSet, PendingCommand and TrackedExecution unchanged.
C3_StaleCompletionIgnored ==
    [][/\ \A x \in live :
             (ShellExecutionEnded(x) /\ trackedExecutions[tname[x[2]]] # x[1])
                => UNCHANGED tables
       /\ \A t \in Terms : ForeignExecutionEnded(t) => UNCHANGED tables]_vars

\* Execution E1 is still to end while its terminal's name is Running and tracks E2.
C3_Witness ==
    \E x \in live :
        /\ trackedExecutions[tname[x[2]]] \notin {x[1], NoExec}
        /\ tname[x[2]] \in runningTerminals
        /\ \E y \in live : y[1] = trackedExecutions[tname[x[2]]]

\* C4: a capability-available event for a terminal whose name has a PendingCommand
\* dispatches exactly the queued command through the capability of that terminal,
\* records the returned (fresh) execution handle for the name, clears the PendingCommand
\* and leaves the RunningSet as it is, so a Running name stays Running; with no
\* PendingCommand for the name the event dispatches nothing and changes no table.
C4_TrackablePath ==
    [][\A t \in Terms :
          ShellIntegrationChanged(t) =>
             IF pendingCommands[tname[t]] # NoCmd
             THEN /\ ev' = Event("capability", t, FALSE, "cap", pendingCommands[tname[t]])
                  /\ nExecs' = nExecs + 1
                  /\ trackedExecutions'[tname[t]] = nExecs'
                  /\ <<nExecs', t>> \in live'
                  /\ pendingCommands'[tname[t]] = NoCmd
                  /\ runningTerminals' = runningTerminals
             ELSE UNCHANGED <<tables, ev, live>>]_vars

\* The capability has just dispatched a queued command for a Running name, whose
\* execution is recorded and still to end.
C4_Witness ==
    /\ ev.op = "capability"
    /\ ev.dispatch = "cap"
    /\ tname[ev.term] \in runningTerminals
    /\ pendingCommands[tname[ev.term]] = NoCmd
    /\ <<trackedExecutions[tname[ev.term]], ev.term>> \in live

\* C5: when the grace timer of a start in a fresh terminal fires with its command still
\* queued, the command is sent to that terminal as raw text, the PendingCommand is
\* cleared, and no table is changed otherwise (no handle is recorded, the RunningSet is
\* untouched); and as long as the capability never became available for a name, no
\* handle is recorded for it and it leaves the RunningSet only by a terminal-closed
\* event or an explicit stop action for that name.
C5_FallbackPath ==
    [][/\ \A i \in 1..Len(timers) :
             (/\ GraceNewTimer(i)
              /\ pendingCommands[tname[timers[i].term]] = timers[i].cmd
              /\ IsOpen(timers[i].term))
                => /\ ev' = Event("graceNew", timers[i].term, FALSE, "raw", timers[i].cmd)
                   /\ pendingCommands'[tname[timers[i].term]] = NoCmd
                   /\ trackedExecutions' = trackedExecutions
                   /\ runningTerminals' = runningTerminals
       /\ \A n \in Labels :
             NoCapability(n) =>
                /\ trackedExecutions[n] = NoExec
                /\ (n \in runningTerminals /\ n \notin runningTerminals')
                      => CloseEvent(n) \/ ExplicitStop(n)]_vars

\* The grace timer has just sent the command of a fresh start as raw text: the name is
\* Running with no pending command and no handle, and its terminal never had the
\* capability.
C5_Witness ==
    /\ ev.op = "graceNew"
    /\ ev.dispatch = "raw"
    /\ NoCapability(tname[ev.term])
    /\ tname[ev.term] \in runningTerminals
    /\ pendingCommands[tname[ev.term]] = NoCmd
    /\ trackedExecutions[tname[ev.term]] = NoExec

\* C6: an explicit stop action (the stop command, or the second click of a double-click
\* on a Running script) on a name that has an open terminal and is Running sends the
\* interrupt byte to that terminal and leaves the name out of the RunningSet in the
\* state directly after, the terminal still open and its executions still to end.
C6_ExplicitStopImmediate ==
    [][\A s \in ScriptIds :
          (/\ HasTerminal(labelOf(s))
           /\ labelOf(s) \in runningTerminals
           /\ Stop(s) \/ DoubleClickStop(s))
             => /\ ev'.interrupt
                /\ ev'.term = FindTerminal(labelOf(s))
                /\ ev'.dispatch = "none"
                /\ labelOf(s) \notin runningTerminals'
                /\ UNCHANGED <<terminals, live>>]_vars

\* A double-click has just stopped a script whose execution has not ended.
C6_Witness ==
    /\ ev.op = "doubleClick"
    /\ ev.interrupt
    /\ ev.cmd = NoCmd
    /\ tname[ev.term] \notin runningTerminals
    /\ \E x \in live : x[2] = ev.term /\ trackedExecutions[tname[ev.term]] = x[1]

\* C7: a terminal-closed event for name T, in any state, leaves T absent from the
\* RunningSet with no PendingCommand entry and no TrackedExecution entry.
C7_CloseClearsName ==
    [][\A t \in Terms :
          TerminalClosed(t) =>
             /\ tname[t] \notin runningTerminals'
             /\ pendingCommands'[tname[t]] = NoCmd
             /\ trackedExecutions'[tname[t]] = NoExec]_vars

\* A terminal has just closed while a timer of a start in it was outstanding and a
\* handle had been recorded in it.
C7_Witness ==
    /\ ev.op = "close"
    /\ \E i \in 1..Len(timers) : timers[i].term = ev.term
    /\ nExecs > 0
    /\ ev.term \in si
    /\ tname[ev.term] \notin runningTerminals
    /\ trackedExecutions[tname[ev.term]] = NoExec

\* C8: whenever a command is dispatched into a terminal, through the capability or as
\* raw text, the terminal's name is in the RunningSet in the state directly after.
C8_DispatchedIsRunning ==
    ev.dispatch \in {"cap", "raw"} => tname[ev.term] \in runningTerminals

\* C9: a name leaves the RunningSet only in a terminal-closed event, a completion event
\* whose execution matches the recorded handle, or an explicit stop action for that
\* name: the step that removes it is one of these three and is recorded as such, never
\* as a start, a capability-available event, a timer, a terminal opening or a click that
\* is not the stopping second click.
C9_RemovedOnlyByCloseCompletionStop ==
    [][\A n \in Labels :
          (n \in runningTerminals /\ n \notin runningTerminals')
             => /\ tname[ev'.term] = n
                /\ \/ ev'.op = "close" /\ CloseEvent(n)
                   \/ ev'.op = "end" /\ MatchedCompletion(n)
                   \/ /\ ev'.op \in {"stop", "doubleClick"}
                      /\ ev'.interrupt
                      /\ ev'.cmd = NoCmd
                      /\ ExplicitStop(n)]_vars

\* A single click on a Running script is remembered and left it Running, and a matched
\* completion has just removed the other name.
C9_Witness ==
    /\ lastClickKey = "s1"
    /\ "a" \in runningTerminals
    /\ ev.op = "end"
    /\ tname[ev.term] = "b"
    /\ "b" \notin runningTerminals

\* C10: a start for a label with no open terminal creates a terminal of that name,
\* queues the command as the name's PendingCommand, schedules the grace timer and sends
\* nothing; the terminal's open event puts the name in the RunningSet; and a command is
\* dispatched only by a capability-available event, by a grace timer, or by a settle
\* timer of a terminal whose capability was already available.
C10_StartInFreshTerminal ==
    [][/\ \A s \in ScriptIds, command \in Commands :
             (Run(s, command) /\ ~HasTerminal(labelOf(s)))
                => /\ nTerms' = nTerms + 1
                   /\ tname'[nTerms'] = labelOf(s)
                   /\ terminals' = Append(terminals, nTerms')
                   /\ nTerms' \in unopened'
                   /\ pendingCommands'[labelOf(s)] = command
                   /\ timers' = Append(timers, [kind |-> "graceNew", term |-> nTerms',
                                                cmd |-> command])
                   /\ ev' = Event("run", nTerms', FALSE, "none", command)
       /\ \A t \in Terms : TerminalOpened(t) => tname[t] \in runningTerminals'
       /\ (\/ \E s \in ScriptIds, command \in Commands : Run(s, command)
           \/ \E s \in ScriptIds : Stop(s)
           \/ \E t \in Terms : TerminalOpened(t) \/ TerminalClosed(t)
           \/ \E name \in Labels : UserOpenTerminal(name)
           \/ \E x \in live : ShellExecutionEnded(x)
           \/ \E t \in Terms : ForeignExecutionEnded(t))
             => (ev'.dispatch = "none" \/ ev' = ev)
       /\ \A i \in 1..Len(timers) : SettleTimer(i) => timers[i].term \in si]_vars

\* A start has just created a terminal: its open event is still to come, the command is
\* queued and nothing was sent.
C10_Witness ==
    /\ ev.op = "run"
    /\ ~ev.interrupt
    /\ ev.term \in unopened
    /\ pendingCommands[tname[ev.term]] = ev.cmd
    /\ tname[ev.term] \notin runningTerminals

\* C11: a start for a label whose open terminal already has the capability sends the
\* interrupt to that terminal at once, changes no table (in particular queues no
\* PendingCommand) and schedules the settle timer; when the settle timer fires with the
\* terminal still open, the command is dispatched through the capability, the fresh
\* execution handle is recorded for the name and the name is in the RunningSet.
C11_ReuseWithCapability ==
    [][/\ \A s \in ScriptIds, command \in Commands :
             (/\ HasTerminal(labelOf(s))
              /\ FindTerminal(labelOf(s)) \in si
              /\ Run(s, command))
                => /\ ev' = Event("run", FindTerminal(labelOf(s)), TRUE, "none", command)
                   /\ UNCHANGED tables
                   /\ timers' = Append(timers, [kind |-> "settle",
                                                term |-> FindTerminal(labelOf(s)),
                                                cmd |-> command])
       /\ \A i \in 1..Len(timers) :
             (SettleTimer(i) /\ IsOpen(timers[i].term))
                => /\ ev' = Event("settle", timers[i].term, FALSE, "cap", timers[i].cmd)
                   /\ nExecs' = nExecs + 1
                   /\ trackedExecutions'[tname[timers[i].term]] = nExecs'
                   /\ <<nExecs', timers[i].term>> \in live'
                   /\ tname[timers[i].term] \in runningTerminals'
                   /\ pendingCommands' = pendingCommands]_vars

\* The settle timer of a start in a terminal with the capability has just dispatched:
\* the handle is recorded and live, the name is Running and nothing is queued for it.
C11_Witness ==
    /\ ev.op = "settle"
    /\ ev.dispatch = "cap"
    /\ tname[ev.term] \in runningTerminals
    /\ <<trackedExecutions[tname[ev.term]], ev.term>> \in live
    /\ pendingCommands[tname[ev.term]] = NoCmd

\* C12: a start for a label whose open terminal lacks the capability sends the interrupt
\* to it, sets the name's PendingCommand to the command and schedules a grace timer; and
\* the grace period is restarted: a grace timer that sends a queued command as raw text
\* is the one scheduled at the most recent queueing for that name, so no grace timer of
\* a later start in the open terminal of that name is outstanding when it sends.
C12_GraceRestarted ==
    [][/\ \A s \in ScriptIds, command \in Commands :
             (/\ HasTerminal(labelOf(s))
              /\ FindTerminal(labelOf(s)) \notin si
              /\ Run(s, command))
                => /\ ev' = Event("run", FindTerminal(labelOf(s)), TRUE, "none", command)
                   /\ pendingCommands'[labelOf(s)] = command
                   /\ timers' = Append(timers, [kind |-> "graceExisting",
                                                term |-> FindTerminal(labelOf(s)),
                                                cmd |-> command])
       /\ \A i \in 1..Len(timers) :
             (/\ GraceExistingTimer(i) \/ GraceNewTimer(i)
              /\ pendingCommands[tname[timers[i].term]] = timers[i].cmd
              /\ ev'.dispatch = "raw")
                => ~\E j \in (i + 1)..Len(timers) :
                       /\ timers[j].kind = "graceExisting"
                       /\ tname[timers[j].term] = tname[timers[i].term]]_vars

\* C13: every dispatch of a command into a reused terminal is preceded by an interrupt
\* sent to that terminal with no other command dispatched into it in between; so when a
\* timer of a reuse start dispatches into a terminal, the last thing the tracker sent
\* before it (to any terminal) is not a command dispatched into that same terminal.
C13_InterruptBeforeDispatch ==
    [][\A i \in 1..Len(timers) :
          (/\ SettleTimer(i) \/ GraceExistingTimer(i)
           /\ ev'.op \in {"settle", "graceExisting"}
           /\ ev'.dispatch \in {"cap", "raw"})
             => ~(ev.dispatch \in {"cap", "raw"} /\ ev.term = timers[i].term)]_vars

\* The terminal for which the PendingCommand of name n was queued: the terminal of the
\* grace timer scheduled at the most recent queueing of that command for n.
QueuedFor(n) ==
    LET idx == {i \in 1..Len(timers) :
                   /\ timers[i].kind \in {"graceExisting", "graceNew"}
                   /\ tname[timers[i].term] = n
                   /\ timers[i].cmd = pendingCommands[n]}
    IN  IF idx = {} THEN NoTerm
        ELSE timers[CHOOSE i \in idx : \A j \in idx : j <= i].term

\* C14 (its safety part): whenever a PendingCommand entry is removed by the
\* capability-available event or by a grace timer, the queued command is dispatched,
\* through the capability or as raw text respectively, into the terminal for which it
\* was queued, and that terminal is open.
C14_RemovedPendingIsDispatched ==
    [][/\ \A t \in Terms :
             (ShellIntegrationChanged(t) /\ pendingCommands[tname[t]] # NoCmd)
                => /\ ev' = Event("capability", t, FALSE, "cap", pendingCommands[tname[t]])
                   /\ t = QueuedFor(tname[t])
       /\ \A i \in 1..Len(timers) :
             (/\ GraceExistingTimer(i) \/ GraceNewTimer(i)
              /\ pendingCommands[tname[timers[i].term]] = timers[i].cmd)
                => /\ ev'.dispatch = "raw"
                   /\ ev'.cmd = timers[i].cmd
                   /\ ev'.term = QueuedFor(tname[timers[i].term])
                   /\ IsOpen(ev'.term)]_vars

\* C15: PendingCommand holds at most one command per terminal name; a start that queues
\* replaces the name's entry by its own command; and a command is dispatched from the
\* queue only while it is the name's entry, so a command replaced by a later one before
\* its dispatch is dropped: the capability event dispatches the current entry, and a
\* grace timer whose command is no longer the entry dispatches nothing.
C15_LaterQueuedWins ==
    [][/\ pendingCommands \in [Labels -> Commands \cup {NoCmd}]
       /\ \A s \in ScriptIds, command \in Commands :
             (/\ ~(HasTerminal(labelOf(s)) /\ FindTerminal(labelOf(s)) \in si)
              /\ Run(s, command))
                => pendingCommands' = [pendingCommands EXCEPT ![labelOf(s)] = command]
       /\ \A t \in Terms :
             ShellIntegrationChanged(t) =>
                IF pendingCommands[tname[t]] # NoCmd
                THEN ev'.dispatch = "cap" /\ ev'.cmd = pendingCommands[tname[t]]
                ELSE ev' = ev
       /\ \A i \in 1..Len(timers) :
             (/\ pendingCommands[tname[timers[i].term]] \notin {timers[i].cmd, NoCmd}
              /\ GraceExistingTimer(i) \/ GraceNewTimer(i))
                => /\ ev' = ev \/ ev'.dispatch = "none"
                   /\ pendingCommands' = pendingCommands]_vars

\* A second, different command was queued for a name before the first was dispatched:
\* the timers of both starts are outstanding and the entry is the later command.
C15_Witness ==
    /\ Len(timers) = 2
    /\ timers[1].kind \in {"graceExisting", "graceNew"}
    /\ timers[2].kind = "graceExisting"
    /\ tname[timers[1].term] = tname[timers[2].term]
    /\ timers[1].cmd # timers[2].cmd
    /\ pendingCommands[tname[timers[2].term]] = timers[2].cmd

\* C16: when a grace timer fires and the PendingCommand of its terminal name is no longer
\* its command (cleared, or replaced by a different command), the timer sends nothing to
\* any terminal and leaves PendingCommand and TrackedExecution unchanged.
C16_StaleGraceTimerSendsNothing ==
    [][\A i \in 1..Len(timers) :
          pendingCommands[tname[timers[i].term]] # timers[i].cmd =>
             /\ GraceExistingTimer(i) =>
                   /\ ev' = Event("graceExisting", timers[i].term, FALSE, "none", NoCmd)
                   /\ UNCHANGED <<pendingCommands, trackedExecutions, live>>
             /\ GraceNewTimer(i) => UNCHANGED <<tables, live, ev>>]_vars

\* The reuse-branch grace timer of a replaced command has just fired in an open terminal:
\* it sent nothing and the later command is still queued, its own timer outstanding.
C16_Witness ==
    /\ ev = Event("graceExisting", ev.term, FALSE, "none", NoCmd)
    /\ IsOpen(ev.term)
    /\ pendingCommands[tname[ev.term]] # NoCmd
    /\ \E i \in 1..Len(timers) :
          /\ timers[i].term = ev.term
          /\ timers[i].cmd = pendingCommands[tname[ev.term]]

\* C17: script identities with the same label share one run state and one terminal: each
\* is shown Running exactly when the label is in the RunningSet, a start of either acts
\* exactly as a start of the other, and a start while a terminal named by the label is
\* open creates no terminal and goes to that terminal.
C17_SameLabelSharesTerminalAndState ==
    [][\A s \in ScriptIds, r \in ScriptIds :
          (s # r /\ labelOf(s) = labelOf(r)) =>
             /\ isRunning(s) <=> labelOf(s) \in runningTerminals
             /\ isRunning(s) <=> isRunning(r)
             /\ \A command \in Commands :
                   /\ Run(s, command) <=> Run(r, command)
                   /\ (Run(s, command) /\ HasTerminal(labelOf(s)))
                         => /\ UNCHANGED <<terminals, nTerms, tname>>
                            /\ ev'.term = FindTerminal(labelOf(s))
                            /\ tname[ev'.term] = labelOf(r)]_vars

\* The terminal created by a start for the shared label has been reused by a later start
\* for that label, and both scripts of the label are shown Running.
C17_Witness ==
    /\ labelOf("s1") = labelOf("s2")
    /\ isRunning("s1") /\ isRunning("s2")
    /\ Len(timers) = 2
    /\ timers[1].kind = "graceNew"
    /\ timers[2].kind = "graceExisting"
    /\ timers[2].term = timers[1].term
    /\ tname[timers[1].term] = labelOf("s1")
    /\ ev.op = "run"
    /\ ev.term = timers[1].term

\* C18: setting, changing or clearing a script's display name changes only the label
\* shown: no script's stored override (looked up under the script's id), effective
\* command or shown run state changes, no terminal is renamed and no tracker table
\* changes; and a start of a script, whatever its display name, goes to the terminal
\* named by the script's own label with the script's effective command.
C18_DisplayNameIsCosmetic ==
    [][/\ \A s \in ScriptIds :
             ((\E input \in LabelInputs \cup {Undefined} : SetLabel(s, input)) \/ ClearLabel(s))
                => /\ UNCHANGED trackerVars
                   /\ \A r \in ScriptIds :
                         /\ ScriptStoreGet(overrides, r)' = ScriptStoreGet(overrides, r)
                         /\ effectiveCommand(r)' = effectiveCommand(r)
                         /\ isRunning(r)' = isRunning(r)
                         /\ r # s => displayLabel(r)' = displayLabel(r)
       /\ \A s \in ScriptIds :
             RunEffective(s) =>
                /\ tname'[ev'.term] = labelOf(s)
                /\ ev'.cmd = effectiveCommand(s)
                /\ ev'.cmd = IF s \in DOMAIN ScriptStoreAll(overrides)
                             THEN ScriptStoreAll(overrides)[s]
                             ELSE defaultCommand(s)]_vars

\* The script labelled b has a display name and an override, and a start has just gone
\* to a terminal named b with the override as its command.
C18_Witness ==
    /\ displayLabel("s3") = "y"
    /\ labelOf("s3") = "b"
    /\ ScriptStoreGet(overrides, "s3") = "x"
    /\ ev.op = "run"
    /\ tname[ev.term] = "b"
    /\ ev.cmd = "x"
    /\ IsOpen(ev.term)

\* C19: the source registry never holds two entries with the same (type, path); add of
\* a source whose (type, path) is already stored returns false and leaves the registry
\* as it is, and add of any other source returns true and leaves the registry with the
\* source appended after the existing entries.
C19_NoDuplicateSources ==
    [][/\ \A i \in 1..Len(getAll), j \in 1..Len(getAll) :
             (getAll[i].type = getAll[j].type /\ getAll[i].path = getAll[j].path) => i = j
       /\ \A source \in Sources :
             SourceStoreAdd(source) =>
                IF \E i \in 1..Len(getAll) : getAll[i] = source
                THEN call'.returned = "false" /\ getAll' = getAll
                ELSE call'.returned = "true" /\ getAll' = getAll \o <<source>>]_vars

\* An add has just been refused: its source was already stored, between other sources
\* and next to one of the same path and another type.
C19_Witness ==
    /\ call.op = "add"
    /\ call.returned = "false"
    /\ getAll = call.before
    /\ Len(getAll) = 3
    /\ getAll[2] = call.arg
    /\ \E i \in {1, 3} : getAll[i].path = call.arg.path

\* The position of source x in a list of sources (0 if it is not in it).
indexOf(all, x) ==
    IF \E i \in 1..Len(all) : all[i] = x
    THEN CHOOSE i \in 1..Len(all) : all[i] = x /\ \A j \in 1..(i - 1) : all[j] # x
    ELSE 0

\* C20: remove(path) leaves no source of that path, whatever its type; the sources of
\* every other path are all still stored, in the same relative order, and nothing else
\* is; and when no source has that path the registry is as it was.
C20_RemoveByPath ==
    [][\A sourcePath \in Paths :
          SourceStoreRemove(sourcePath) =>
             /\ \A i \in 1..Len(getAll') : getAll'[i].path # sourcePath
             /\ \A x \in Sources :
                   (indexOf(getAll', x) # 0) <=>
                      (indexOf(getAll, x) # 0 /\ x.path # sourcePath)
             /\ \A i \in 1..Len(getAll'), j \in 1..Len(getAll') :
                   i < j => indexOf(getAll, getAll'[i]) < indexOf(getAll, getAll'[j])
             /\ (\A i \in 1..Len(getAll) : getAll[i].path # sourcePath)
                   => getAll' = getAll]_vars

\* A remove has just deleted two sources of one path and different types that stood
\* around a source of another path, which is still stored.
C20_Witness ==
    /\ call.op = "remove"
    /\ Len(call.before) = 3
    /\ call.before[1].path = call.arg
    /\ call.before[3].path = call.arg
    /\ call.before[1].type # call.before[3].type
    /\ getAll = <<call.before[2]>>

\* C21: the command with which a script is run, by runway.run, by the starting second
\* click of a double-click or by opening it in the system terminal, is the override
\* stored for the script's id if there is one, whatever default command the script
\* carries, and is that default command otherwise.
C21_OverridePrecedence ==
    [][\A s \in ScriptIds, dflt \in Commands :
          (\/ RunItem(s, dflt)
           \/ OpenInSystemTerminal(s, dflt)
           \/ /\ s = lastClickKey
              /\ ~(HasTerminal(labelOf(s)) /\ labelOf(s) \in runningTerminals)
              /\ ItemClickedItem(s, TRUE, dflt))
             => ev'.cmd = IF s \in DOMAIN ScriptStoreAll(overrides)
                          THEN ScriptStoreAll(overrides)[s]
                          ELSE dflt]_vars

\* The script labelled b has an override, and a double-click has just started it in a
\* fresh terminal with the override queued as its command.
C21_Witness ==
    /\ ScriptStoreGet(overrides, "s3") = "x"
    /\ ev.op = "doubleClick"
    /\ ev.term # NoTerm
    /\ tname[ev.term] = "b"
    /\ ev.cmd = "x"
    /\ pendingCommands["b"] = "x"

\* C22: no stored override is empty or whitespace-only; an override input that is empty
\* after trimming, and a cancelled input, leave the workspace state (and so the override
\* map) unchanged; any other input is stored trimmed under the script's id.
C22_NoEmptyOverride ==
    [][/\ \A s \in DOMAIN ScriptStoreAll(overrides) :
             trim(ScriptStoreAll(overrides)[s]) # ""
       /\ \A s \in ScriptIds, input \in OverrideInputs \cup {Undefined} :
             SetOverride(s, input) =>
                IF input = Undefined \/ input \in {"", " "}
                THEN UNCHANGED workspaceState
                ELSE /\ ScriptStoreGet(overrides, s)' # ""
                     /\ ScriptStoreGet(overrides, s)' # input
                     /\ trim(ScriptStoreGet(overrides, s)') = ScriptStoreGet(overrides, s)'
                     /\ \A r \in ScriptIds \ {s} :
                           ScriptStoreGet(overrides, r)' = ScriptStoreGet(overrides, r)]_vars

\* One script has a stored override, trimmed of the blanks around the input, and the
\* override map has been written for no other script.
C22_Witness ==
    /\ overrides \in DOMAIN workspaceState
    /\ DOMAIN ScriptStoreAll(overrides) = {"s2"}
    /\ ScriptStoreGet(overrides, "s2") = "x"
    /\ terminals = <<>>

\* The package groups among the shown roots, by position.
packageGroups == {i \in 1..Len(tree.roots) : tree.roots[i].kind = "packageGroup"}

\* The manager a lock file stands for.
managerOfLock(l) ==
    CASE l = "pnpm-lock.yaml" -> "pnpm"
      [] l = "bun.lockb" -> "bun"
      [] l = "yarn.lock" -> "yarn"
      [] OTHER -> "npm"

\* The lock files beside a manifest.
locksBeside(manifest) ==
    {l \in LockFiles : existsSync(pathJoin(pathDirname(manifest), l))}

\* C24: the manager of a shown package group is the one its manifest's manager field
\* names (npm, pnpm, yarn or bun), whatever lock files there are; without such a field it
\* is the manager of a lock file that is present; without lock files it is the one the
\* lifecycle scripts' text gives (pnpm before bun before yarn before npx); and it is npm
\* only when none of these decides.
C24_ManagerPriority ==
    \A i \in packageGroups :
        LET manifest == tree.roots[i].filePath
            pkg == fs.files[manifest].pkg
            pm == tree.roots[i].pm
            inferred == inferPMFromScripts(pkg.scripts)
        IN  /\ pkg.packageManager # <<>> => pm = pkg.packageManager[1]
            /\ pkg.packageManager = <<>> /\ locksBeside(manifest) # {}
                  => pm \in {managerOfLock(l) : l \in locksBeside(manifest)}
            /\ pkg.packageManager = <<>> /\ locksBeside(manifest) = {}
                  => pm = IF inferred # Undefined THEN inferred ELSE "npm"

\* C25: every script of a shown package group has the identity npm:<manifest>:<name> and
\* the default command "<pm> run <name>" with the manager resolved for the manifest, one
\* item per script of the manifest; the group's label is the manifest's name when it has
\* a non-empty one and the basename of its directory otherwise.
C25_PackageScriptIdentity ==
    \A i \in packageGroups :
        LET group == tree.roots[i]
            pkg == fs.files[group.filePath].pkg
            items == tree.children[i].items
        IN  /\ group.label = IF pkg.name \in {Undefined, ""}
                             THEN <<pathBasename(pathDirname(group.filePath))>>
                             ELSE <<pkg.name>>
            /\ Len(items) = Len(pkg.scripts)
            /\ \A j \in 1..Len(items) :
                  /\ items[j].label = <<pkg.scripts[j].name>>
                  /\ items[j].id = <<"npm", group.filePath, pkg.scripts[j].name>>
                  /\ items[j].defaultCommand =
                        <<detectPM(pathDirname(group.filePath)), "run", pkg.scripts[j].name>>

\* C25 as stated: the label is the name field whenever the manifest has one.
C25_LabelIsNameField ==
    \A i \in packageGroups :
        LET pkg == fs.files[tree.roots[i].filePath].pkg
        IN  /\ pkg.name # Undefined => tree.roots[i].label = <<pkg.name>>
            /\ pkg.name = Undefined
                  => tree.roots[i].label
                        = <<pathBasename(pathDirname(tree.roots[i].filePath))>>

\* A group named after its directory is shown with a script whose default is pnpm run dev.
C25_Witness ==
    \E i \in packageGroups :
        /\ tree.roots[i].label = <<"p">>
        /\ \E j \in 1..Len(tree.children[i].items) :
              /\ tree.children[i].items[j].id = <<"npm", manifestPath, "dev">>
              /\ tree.children[i].items[j].defaultCommand = <<"pnpm", "run", "dev">>

\* The Makefile groups among the shown roots, by position.
makeGroups == {i \in 1..Len(tree.roots) : tree.roots[i].kind = "makeGroup"}

\* The directory sources of the registry.
directorySources == {getAll[i].path : i \in {j \in 1..Len(getAll) : getAll[j].type = "directory"}}

\* The canonical names, by position, that exist in a directory with at least one target.
usableBuildFiles(dir) ==
    {i \in 1..3 : /\ existsSync(pathJoin(dir, canonicalNames[i]))
                  /\ canRead(pathJoin(dir, canonicalNames[i]))
                  /\ \E k \in 1..Len(fs.files[pathJoin(dir, canonicalNames[i])].lines) :
                        fs.files[pathJoin(dir, canonicalNames[i])].lines[k] # "#"}

\* C26: after a pass, a directory source has a Makefile group exactly when one of the
\* three canonical names exists there with a target, and the group's file is the first
\* such name; a file without targets at an earlier name does not stand in the way.
C26_FirstBuildFileWithTargets ==
    tree.status = "ok" =>
        \A dir \in directorySources :
            LET groups == {i \in makeGroups : tree.roots[i].sourcePath = dir}
                usable == usableBuildFiles(dir)
            IN  IF usable = {} THEN groups = {}
                ELSE /\ Cardinality(groups) = 1
                     /\ \A i \in groups :
                           tree.roots[i].filePath =
                              pathJoin(dir, canonicalNames[CHOOSE u \in usable :
                                                              \A v \in usable : u <= v])

\* The position of the first line of a file that names target t.
firstLine(lines, t) ==
    CHOOSE k \in 1..Len(lines) : lines[k] = t /\ \A j \in 1..(k - 1) : lines[j] # t

\* C27: the targets shown for a build file are the names its target lines carry, each
\* once, in the order of their first lines.
C27_TargetsOnceInFirstOccurrenceOrder ==
    \A i \in makeGroups :
        LET lines == fs.files[tree.roots[i].filePath].lines
            items == tree.children[i].items
            name == [j \in 1..Len(items) |-> items[j].label[1]]
        IN  /\ {name[j] : j \in 1..Len(items)}
                  = {lines[k] : k \in {n \in 1..Len(lines) : lines[n] # "#"}}
            /\ \A j, k \in 1..Len(items) :
                  j < k => /\ name[j] # name[k]
                           /\ firstLine(lines, name[j]) < firstLine(lines, name[k])

\* A build file that names a target twice, with another between, is shown with both
\* targets once.
C27_Witness ==
    \E i \in makeGroups :
        /\ fs.files[tree.roots[i].filePath].lines = <<"clean", "all", "clean">>
        /\ Len(tree.children[i].items) = 2
        /\ tree.children[i].items[1].label = <<"clean">>
        /\ tree.children[i].items[2].label = <<"all">>

\* The file categories among the shown roots, by position.
fileCategories == {i \in 1..Len(tree.roots) : tree.roots[i].kind = "fileCategory"}

\* The type of a category.
typeOfCategory(cat) ==
    FILE_SCRIPT_TYPES[CHOOSE i \in 1..Len(FILE_SCRIPT_TYPES) :
                         FILE_SCRIPT_TYPES[i].kind = cat.categoryKind]

\* The last pass was over the registry and the files as they are now.
treeIsCurrent == tree = discover(getAll)

\* The files of a type that the sources reach: those in the directory sources and the
\* file sources themselves.
reachableFiles(type) ==
    {q \in DOMAIN fs.files :
        /\ pathExtname(pathBasename(q)) \in type.extensions
        /\ pathDirname(q) \in directorySources
        /\ canList(pathDirname(q))}
    \cup {getAll[i].path : i \in {j \in 1..Len(getAll) :
             /\ getAll[j].type = "file"
             /\ pathExtname(pathBasename(getAll[j].path)) \in type.extensions}}

\* C28: the children of a file category are file scripts of its type with pairwise
\* different paths, a file that is both in a directory source and a file source of its
\* own being listed once; when the pass is current they are exactly the files of the type
\* that the directory and file sources reach; and there is no category, and no file
\* script, for the Makefile type, which has no extension.
C28_FileScriptsOncePerPath ==
    /\ \A i \in fileCategories :
          LET items == tree.children[i].items
              type == typeOfCategory(tree.roots[i])
          IN  /\ type.extensions # {}
              /\ \A j \in 1..Len(items) :
                    /\ items[j].kind = "fileScript"
                    /\ items[j].id = <<"file", items[j].filePath>>
                    /\ pathExtname(pathBasename(items[j].filePath)) \in type.extensions
                    /\ pathBasename(items[j].filePath) \notin
                          {canonicalNames[n] : n \in 1..3}
              /\ \A j, k \in 1..Len(items) :
                    j # k => items[j].filePath # items[k].filePath
              /\ treeIsCurrent /\ ~tree.children[i].throws
                    => {items[j].filePath : j \in 1..Len(items)} = reachableFiles(type)
    /\ \A item \in shownItems : item.kind = "fileScript" =>
          \E i \in fileCategories : \E j \in 1..Len(tree.children[i].items) :
              tree.children[i].items[j] = item

\* /a and /a/x.sh are both sources, and the shell category lists /a/x.sh once.
C28_Witness ==
    /\ treeIsCurrent
    /\ makeDir \in directorySources
    /\ \E n \in 1..Len(getAll) :
          getAll[n] = [type |-> "file", path |-> pathJoin(makeDir, "x.sh")]
    /\ \E i \in fileCategories :
          /\ tree.roots[i].categoryKind = "shell"
          /\ Len(tree.children[i].items) = 1
          /\ tree.children[i].items[1].filePath = pathJoin(makeDir, "x.sh")

failingSources ==
    {i \in 1..Len(getAll) :
        \/ getAll[i].type = "packageJson" /\ ~canParse(getAll[i].path)
        \/ getAll[i].type = "directory" /\ existsSync(getAll[i].path)
              /\ ~canList(getAll[i].path)
        \/ getAll[i].type = "directory"
              /\ \E n \in 1..3 : LET mk == pathJoin(getAll[i].path, canonicalNames[n])
                                 IN  existsSync(mk) /\ ~canRead(mk)}

\* C30: a pass completes whatever sources fail, and what it shows includes everything a
\* pass over the other sources alone shows.
C30_ErrorOmitsOnlyThatSource ==
    treeIsCurrent =>
        /\ tree.status = "ok"
        /\ \A i \in 1..Len(tree.children) : ~tree.children[i].throws
        /\ LET others == [i \in 1..Len(getAll) |-> IF i \in failingSources
                                                   THEN <<>> ELSE <<getAll[i]>>]
           IN  itemsOf(discover(concat(others))) \subseteq shownItems

\* A source is added or removed.
SourceStep ==
    \/ addPackageJson(manifestPath)
    \/ addDirectory(makeDir)
    \/ \E item \in shownItems : removeSource(item)

\* C23: adding or removing a source leaves the override map and the display-name map as
\* they are; and a script shown again after its source was removed and added again, with
\* the override stored before still unwritten, has that override as its effective command.
C23_StoresOutliveSources ==
    [][/\ SourceStep => /\ ScriptStoreAll(overrides)' = ScriptStoreAll(overrides)
                        /\ ScriptStoreAll(labels)' = ScriptStoreAll(labels)
       /\ \A item \in shownItems' :
             item.id \in inert'
                => /\ ScriptStoreGet(overrides, item.id)' # Undefined
                   /\ resolveCommand(item.id, item.defaultCommand)'
                         = ScriptStoreGet(overrides, item.id)']_vars

\* A source was just added again, and a script of it whose override sat unused while the
\* script was gone is shown with that override as its command, its display name kept too.
C23_Witness ==
    /\ call.op = "add"
    /\ call.returned = "true"
    /\ \E item \in shownItems :
          /\ item.id \in inert
          /\ resolveCommand(item.id, item.defaultCommand) = "x"
          /\ ScriptStoreGet(labels, item.id) = "y"

\* The file sources of the registry.
fileSources == {getAll[i].path : i \in {j \in 1..Len(getAll) : getAll[j].type = "file"}}

\* C31: an addFile run warns about exactly the picked files of no known extension and
\* adds none of them; a run that picks only such files leaves the registry as it is; and
\* every other picked file is a file source afterwards, whatever was picked with it, the
\* sources stored before all kept in their order.
C31_UnsupportedFileReported ==
    [][\A picked \in Selections :
          addFile(picked) =>
             LET unsupported == {picked[i] : i \in {j \in 1..Len(picked) :
                                                      ~isSupported(picked[j])}}
                 supported == {picked[i] : i \in 1..Len(picked)} \ unsupported
             IN  /\ {notice'.warned[i] : i \in 1..Len(notice'.warned)} = unsupported
                 /\ unsupported \cap fileSources' = {}
                 /\ supported = {} => getAll' = getAll
                 /\ supported \subseteq fileSources'
                 /\ fileSources' = fileSources \cup supported
                 /\ SubSeq(getAll', 1, Len(getAll)) = getAll]_vars

\* The last addFile run picked /a/n.txt and then /a/x.sh: it warned about the first and
\* added the second to the registry.
C31_Witness ==
    /\ notice.picked = <<pathJoin(makeDir, "n.txt"), pathJoin(makeDir, "x.sh")>>
    /\ notice.warned = <<pathJoin(makeDir, "n.txt")>>
    /\ call.op = "add"
    /\ call.returned = "true"
    /\ call.arg.path = pathJoin(makeDir, "x.sh")
    /\ getAll = Append(call.before, call.arg)

\* C32: the second click of a double-click on a script stops it when a terminal of its
\* label is open and the label is in the RunningSet (interrupt sent, nothing dispatched,
\* label out of the RunningSet), and otherwise starts it (a start recorded for the label
\* with a command, its timer scheduled); either way the click memory is cleared, and a
\* click made with the memory cleared is a first click: it is remembered and changes
\* nothing else, however soon it comes.
C32_DoubleClickToggles ==
    [][\A s \in ScriptIds, fast \in BOOLEAN :
          ItemClicked(s, fast) =>
             /\ (s = lastClickKey /\ fast)
                   => /\ lastClickKey' = ""
                      /\ ev'.op = "doubleClick"
                      /\ IF HasTerminal(labelOf(s)) /\ labelOf(s) \in runningTerminals
                         THEN /\ ev'.interrupt
                              /\ ev'.dispatch = "none"
                              /\ ev'.cmd = NoCmd
                              /\ ev'.term = FindTerminal(labelOf(s))
                              /\ labelOf(s) \notin runningTerminals'
                              /\ UNCHANGED <<terminals, timers>>
                         ELSE /\ ev'.cmd \in Commands
                              /\ tname'[ev'.term] = labelOf(s)
                              /\ cmdActive'[labelOf(s)]
                              /\ Len(timers') = Len(timers) + 1
                              /\ timers'[Len(timers')].cmd = ev'.cmd
                              /\ timers'[Len(timers')].term = ev'.term
             /\ lastClickKey = ""
                   => /\ lastClickKey' = s
                      /\ UNCHANGED <<tables, terminals, timers, ev>>]_vars

\* A double-click stopped a script, and a click on the same script after it was taken as
\* a first click: the script is remembered and still stopped, its terminal open.
C32_Witness ==
    /\ ev.op = "doubleClick"
    /\ ev.interrupt
    /\ ev.cmd = NoCmd
    /\ lastClickKey \in ScriptIds
    /\ labelOf(lastClickKey) = tname[ev.term]
    /\ IsOpen(ev.term)
    /\ tname[ev.term] \notin runningTerminals

C34_SubStatesOnlyWhileRunning ==
    \A n \in Labels :
        (pendingCommands[n] # NoCmd \/ trackedExecutions[n] # NoExec)
           => n \in runningTerminals

\* C35: while a name is closed (no terminal of that name is open and no start for it was
\* made since the last of them closed) it is not in the RunningSet and has no
\* TrackedExecution entry, whatever timers scheduled before the close have fired since.
C35_ClosedStaysIdle ==
    \A n \in Labels :
        (~HasTerminal(n) /\ ~cmdActive[n])
           => n \notin runningTerminals /\ trackedExecutions[n] = NoExec

\* A start action for terminal name n: runway.run, or a double-click that starts.
StartStep(n) ==
    \E s \in ScriptIds :
        /\ labelOf(s) = n
        /\ \/ \E command \in Commands : Run(s, command)
           \/ /\ s = lastClickKey
              /\ ~(HasTerminal(n) /\ n \in runningTerminals)
              /\ ItemClicked(s, TRUE)

\* A terminal named n opens.
OpenStep(n) ==
    \/ UserOpenTerminal(n)
    \/ \E t \in Terms : tname[t] = n /\ TerminalOpened(t)

\* C36: when the last thing the tracker did was an explicit stop of name n, a step that
\* is neither a start for n nor the opening of a terminal named n dispatches no command
\* into n's terminal and leaves n out of the RunningSet, whatever was pending or
\* scheduled at the stop.
C36_StoppedStaysStopped ==
    [][\A n \in Labels :
          LET justStopped == /\ ev.op \in {"stop", "doubleClick"}
                             /\ ev.cmd = NoCmd
                             /\ ev.term # NoTerm
                             /\ tname[ev.term] = n
              dispatchInto == /\ ev' # ev
                              /\ ev'.dispatch \in {"cap", "raw"}
                              /\ tname'[ev'.term] = n
          IN  (justStopped /\ ~StartStep(n) /\ ~OpenStep(n))
                 => (n \notin runningTerminals' /\ ~dispatchInto)]_vars

\* C37: when the last thing the tracker did was to mark name n Idle on a matched
\* completion, and no start for n still awaits its dispatch, a step that is neither a
\* start for n nor the opening of a terminal named n leaves n out of the RunningSet; in
\* particular no timer of the start that launched the completed command puts it back.
C37_CompletedStaysIdle ==
    [][\A n \in Labels :
          LET justCompleted ==
                  /\ ev.op = "end"
                  /\ tname[ev.term] = n
                  /\ pendingCommands[n] = NoCmd
                  /\ \A i \in 1..Len(timers) :
                        tname[timers[i].term] = n => timers[i].kind # "settle"
          IN  (justCompleted /\ ~StartStep(n) /\ ~OpenStep(n))
                 => n \notin runningTerminals']_vars

\* The number of starts for name n whose command is still to be dispatched: a settle
\* callback dispatches its own command, and the queued command of the name is dispatched
\* by whichever of the capability event and the grace callbacks comes first.
Undispatched(n) ==
    Cardinality({i \in 1..Len(timers) :
                    timers[i].kind = "settle" /\ tname[timers[i].term] = n})
      + (IF pendingCommands[n] # NoCmd THEN 1 ELSE 0)

\* The step hands a command of name n to a terminal, through the capability or as raw
\* text (also when the terminal has been closed in the meantime).
DispatchStep(n) ==
    \/ \E t \in Terms :
          /\ tname[t] = n
          /\ pendingCommands[n] # NoCmd
          /\ ShellIntegrationChanged(t)
    \/ \E i \in 1..Len(timers) :
          /\ tname[timers[i].term] = n
          /\ \/ SettleTimer(i) /\ trackedExecutions'[n] # trackedExecutions[n]
             \/ /\ GraceExistingTimer(i) \/ GraceNewTimer(i)
                /\ ev'.op = timers[i].kind
                /\ ev'.term = timers[i].term
                /\ ev'.dispatch # "none"

\* C38: every dispatch uses up one start of the name that was still to be dispatched,
\* and nothing but a start adds one, which adds at most one: so over any interleaving of
\* capability events, grace timers and settle timers no start has its command dispatched
\* twice, by the same path or by both.
C38_AtMostOneDispatch ==
    [][\A n \in Labels :
          /\ DispatchStep(n) => Undispatched(n)' = Undispatched(n) - 1
          /\ StartStep(n) => Undispatched(n)' <= Undispatched(n) + 1
          /\ ~StartStep(n) => Undispatched(n)' <= Undispatched(n)]_vars

\* The capability event has dispatched the queued command of a start whose grace timer
\* is still outstanding.
C38_Witness ==
    /\ ev.op = "capability"
    /\ ev.dispatch = "cap"
    /\ pendingCommands[tname[ev.term]] = NoCmd
    /\ \E i \in 1..Len(timers) :
          /\ timers[i].kind \in {"graceExisting", "graceNew"}
          /\ timers[i].term = ev.term
          /\ timers[i].cmd = ev.cmd

\* A tracker event that concerns terminal name n: a start, a capability event, a settle
\* or grace callback, a completion event, a terminal-closed event or an explicit stop.
ConcernStep(n) ==
    \/ StartStep(n)
    \/ \E t \in Terms :
          /\ tname[t] = n
          /\ ShellIntegrationChanged(t) \/ TerminalClosed(t) \/ ForeignExecutionEnded(t)
    \/ \E x \in live : tname[x[2]] = n /\ ShellExecutionEnded(x)
    \/ \E i \in 1..Len(timers) :
          /\ tname[timers[i].term] = n
          /\ SettleTimer(i) \/ GraceExistingTimer(i) \/ GraceNewTimer(i)
    \/ \E s \in ScriptIds : labelOf(s) = n /\ (Stop(s) \/ DoubleClickStop(s))

\* C39: a tracker event that concerns name n leaves the RunningSet membership, the
\* PendingCommand entry and the TrackedExecution entry of every other name unchanged.
C39_OtherNamesUntouched ==
    [][\A n \in Labels :
          ConcernStep(n) =>
             \A m \in Labels \ {n} :
                /\ (m \in runningTerminals') = (m \in runningTerminals)
                /\ pendingCommands'[m] = pendingCommands[m]
                /\ trackedExecutions'[m] = trackedExecutions[m]]_vars

\* A terminal named "a" has just been closed while "b" is in the RunningSet with a
\* recorded execution.
C39_Witness ==
    /\ ev.op = "close"
    /\ tname[ev.term] = "a"
    /\ "b" \in runningTerminals
    /\ trackedExecutions["b"] # NoExec

====
